---- MODULE Spec2Model ----
(***************************************************************************)
(* Model of jarmon.RrdQuery (src/jarmon/jarmon.js): the time-range query   *)
(* of a parsed RRD file.                                                   *)
(*                                                                         *)
(* Number representation.  startTimeJs and endTimeJs are integer           *)
(* milliseconds.  The code divides them by 1000; the quotients startTime   *)
(* and endTime may have a fractional part, so the model holds these two    *)
(* values as integer thousandths of a second.  Every other time of the     *)
(* code (lastUpdated, lastRowTime, firstRowTime, startRowTime, endRowTime, *)
(* timestamp) is a whole number of seconds and is held in seconds.         *)
(***************************************************************************)
EXTENDS Integers, Sequences, FiniteSets, TLC

\* ---------------------------------------------------------------- bounds
\* longest list of recipes and longest data list of a recipe
MaxRecipes == 2
MaxEntries == 2
\* the most entries added to one chart after fromRecipe
MaxAdded == 1
\* longest archive list of a generated file
MaxRRAs == 2
\* lastUpdate of the generated files (seconds)
MaxLastUpdate == 21
\* query times are TimeGrain * k milliseconds, k in -1..MaxTick
TimeGrain == 2500
MaxTick == 10

\* ------------------------------------------------------------ JS values
\* a JavaScript argument: undefined, a number or a string
Undefined == [t |-> "undefined", n |-> 0, s |-> ""]
Num(k) == [t |-> "number", n |-> k, s |-> ""]
Str(x) == [t |-> "string", n |-> 0, s |-> x]

\* the % operator of JavaScript on integers: the sign follows the dividend
JsRem(a, b) == IF a >= 0 THEN a % b ELSE 0 - ((0 - a) % b)

\* mutant: only the fraction of a second is dropped
Quantize_floor(xMilli, step) == (xMilli - JsRem(xMilli, 1000)) \div 1000

\* x - x % step for x = xMilli/1000 seconds; always a whole number of seconds
Quantize(xMilli, step) == (xMilli - JsRem(xMilli, step * 1000)) \div 1000

Min2(a, b) == IF a <= b THEN a ELSE b
Max2(a, b) == IF a >= b THEN a ELSE b

\* the element of a one-element set: names a value computed once
Only(S) == CHOOSE x \in S : TRUE

\* the numeric "no data" marker of a cell
NaN == 0 - 1

\* --------------------------------------------------- the RRD file (rrd)
\* An RRD file: [lastUpdate, minStep, rras, dsNames]; an archive (RRA):
\* [cf, step, rows].
getLastUpdate(f) == f.lastUpdate
getMinStep(f) == f.minStep
getNrRRAs(f) == Len(f.rras)
\* getRRA(i), i counted from 0 as in the code
getRRA(f, i) == f.rras[i + 1]

\* content of the cell (row, ds) of archive number a: every archive holds
\* different values, some cells hold no data
CellValue(f, a, row, ds) ==
    IF (a + row + ds) % 4 = 3 THEN NaN ELSE (a * 100 + row) * 10 + ds

\* rra.getEl(row, ds) on archive number a.  The accessor is defined for the
\* rows of the archive; for a row outside the archive it either throws or
\* yields the no-data marker (oob chooses).
getEl(f, a, row, ds, oob) ==
    IF row >= 0 /\ row < getRRA(f, a).rows
    THEN [thrown |-> FALSE, val |-> CellValue(f, a, row, ds)]
    ELSE IF oob = "throw" THEN [thrown |-> TRUE, val |-> NaN]
         ELSE [thrown |-> FALSE, val |-> NaN]

\* rrd.getDS(id): lookup by index (number) or by name (string)
getDS(f, id) ==
    IF id.t = "number"
    THEN IF id.n >= 0 /\ id.n < Len(f.dsNames)
         THEN [found |-> TRUE, idx |-> id.n, name |-> f.dsNames[id.n + 1]]
         ELSE [found |-> FALSE, idx |-> 0, name |-> ""]
    ELSE IF \E k \in 1..Len(f.dsNames) : f.dsNames[k] = id.s
         THEN LET k == CHOOSE j \in 1..Len(f.dsNames) : f.dsNames[j] = id.s
              IN [found |-> TRUE, idx |-> k - 1, name |-> id.s]
         ELSE [found |-> FALSE, idx |-> 0, name |-> ""]

\* ------------------------------------------ jarmon.RrdQuery.prototype.getData
\* mutant: > in place of >=
RangeCheckFails_gt(startTimeJs, endTimeJs) ==
    endTimeJs.t = "number" /\ startTimeJs > endTimeJs.n

\* mutant: the window is not checked
RangeCheckFails_never(startTimeJs, endTimeJs) == FALSE

\* if (startTimeJs >= endTimeJs): a comparison with undefined is false
RangeCheckFails(startTimeJs, endTimeJs) ==
    endTimeJs.t = "number" /\ startTimeJs >= endTimeJs.n

\* var startTime = startTimeJs/1000, as a fixed-point number of thousandths
StartTime(startTimeJs) == (startTimeJs * 1000) \div 1000

\* mutant: the default keeps the remainder instead of removing it
EndTime_remainder(f, endTimeJs) ==
    IF endTimeJs.t = "number" /\ endTimeJs.n # 0
    THEN (endTimeJs.n * 1000) \div 1000
    ELSE JsRem(getLastUpdate(f), getMinStep(f)) * 1000

\* endTime in thousandths of a second: the last update quantized to the
\* minimum step, replaced by endTimeJs/1000 when endTimeJs is truthy
EndTime(f, endTimeJs) ==
    IF endTimeJs.t = "number" /\ endTimeJs.n # 0
    THEN (endTimeJs.n * 1000) \div 1000
    ELSE (getLastUpdate(f) - JsRem(getLastUpdate(f), getMinStep(f))) * 1000

\* if (dsId == null) dsId = 0
DefaultDsId(dsId) == IF dsId.t = "undefined" THEN Num(0) ELSE dsId

\* mutant: an identifier the file does not know falls back to index 0
LookupDS_fallback(f, dsId) ==
    IF getDS(f, DefaultDsId(dsId)).found THEN getDS(f, DefaultDsId(dsId))
    ELSE getDS(f, Num(0))

\* var ds = this.rrd.getDS(dsId), after the default
LookupDS(f, dsId) == getDS(f, DefaultDsId(dsId))

\* mutant: the default consolidation function is MIN
DefaultCfName_min(cfName) == IF cfName.t = "undefined" THEN "MIN" ELSE cfName.s

\* if (cfName == null) cfName = 'AVERAGE'
DefaultCfName(cfName) == IF cfName.t = "undefined" THEN "AVERAGE" ELSE cfName.s

\* mutant: the names are compared without regard to case
UpperCf(x) == IF x = "average" THEN "AVERAGE" ELSE IF x = "min" THEN "MIN" ELSE x
CFDiffers_nocase(rraCf, cfName) == UpperCf(rraCf) # UpperCf(cfName)

\* rra.getCFName() != cfName
CFDiffers(rraCf, cfName) == rraCf # cfName

\* the loop variables before the first iteration: rra, step, rraRowCount,
\* lastRowTime and firstRowTime are undefined (rra -1, the others 0)
NoRRA == [rra |-> 0 - 1, step |-> 0, rraRowCount |-> 0,
          lastRowTime |-> 0, firstRowTime |-> 0]

\* mutant: < in place of <=
Covers_strict(firstRowTime, startTime) == firstRowTime * 1000 < startTime

\* firstRowTime <= startTime, startTime in thousandths of a second
Covers(firstRowTime, startTime) == firstRowTime * 1000 <= startTime

\* the archive loop from iteration i on; loc holds the loop variables
RECURSIVE SelectRRA(_, _, _, _, _)
SelectRRA(f, startTime, cfName, i, loc) ==
    IF i >= getNrRRAs(f) THEN loc
    ELSE LET rra == getRRA(f, i)
         IN IF CFDiffers(rra.cf, cfName)
            THEN SelectRRA(f, startTime, cfName, i + 1, [loc EXCEPT !.rra = i])
            ELSE LET step == rra.step
                     rraRowCount == rra.rows
                     lastRowTime == getLastUpdate(f) - JsRem(getLastUpdate(f), step)
                     firstRowTime == lastRowTime - rraRowCount * step
                     loc2 == [rra |-> i, step |-> step,
                              rraRowCount |-> rraRowCount,
                              lastRowTime |-> lastRowTime,
                              firstRowTime |-> firstRowTime]
                 IN IF Covers(firstRowTime, startTime) THEN loc2
                    ELSE SelectRRA(f, startTime, cfName, i + 1, loc2)

\* if (!step)
StepUnset(step) == step = 0

\* Math.max(firstRowTime, startTime - startTime%step)
StartRowTimeRaw(firstRowTime, startTime, step) ==
    Max2(firstRowTime, Quantize(startTime, step))

\* mutant: the end is not capped at the last row of the archive
EndRowTime_uncapped(lastRowTime, endTime, step) == Quantize(endTime, step)

\* Math.min(lastRowTime, endTime - endTime%step)
EndRowTime(lastRowTime, endTime, step) ==
    Min2(lastRowTime, Quantize(endTime, step))

\* mutant: the start is not capped at the end
StartRowTime_unclamped(firstRowTime, startTime, step, endRowTime) ==
    StartRowTimeRaw(firstRowTime, startTime, step)

\* startRowTime = Math.min(startRowTime, endRowTime)
StartRowTime(firstRowTime, startTime, step, endRowTime) ==
    Min2(StartRowTimeRaw(firstRowTime, startTime, step), endRowTime)

\* rraRowCount - (lastRowTime - rowTime) / step
RowIndex(rraRowCount, lastRowTime, rowTime, step) ==
    rraRowCount - ((lastRowTime - rowTime) \div step)

\* mutant: the timestamp is left in seconds
ToJsTime_seconds(seconds) == seconds

\* timestamp*1000.0
ToJsTime(seconds) == seconds * 1000

RECURSIVE ExtractRows(_, _, _, _, _, _, _, _, _)
\* mutant: the loop runs while i <= endRowIndex
RECURSIVE ExtractRows_inclusive(_, _, _, _, _, _, _, _, _)
ExtractRows_inclusive(f, a, dsIndex, i, endRowIndex, timestamp, step, flotData, oob) ==
    IF ~(i <= endRowIndex) THEN [thrown |-> FALSE, data |-> flotData]
    ELSE LET el == getEl(f, a, i, dsIndex, oob)
         IN IF el.thrown THEN [thrown |-> TRUE, data |-> <<>>]
            ELSE ExtractRows_inclusive(f, a, dsIndex, i + 1, endRowIndex,
                             timestamp + step, step,
                             Append(flotData, <<ToJsTime(timestamp), el.val>>),
                             oob)

\* mutant: rows whose cell holds no data are left out of the series
RECURSIVE ExtractRows_skip(_, _, _, _, _, _, _, _, _)
ExtractRows_skip(f, a, dsIndex, i, endRowIndex, timestamp, step, flotData, oob) ==
    IF ~(i < endRowIndex) THEN [thrown |-> FALSE, data |-> flotData]
    ELSE LET el == getEl(f, a, i, dsIndex, oob)
         IN IF el.thrown THEN [thrown |-> TRUE, data |-> <<>>]
            ELSE ExtractRows_skip(f, a, dsIndex, i + 1, endRowIndex,
                             timestamp + step, step,
                             IF el.val = NaN THEN flotData
                             ELSE Append(flotData, <<ToJsTime(timestamp), el.val>>),
                             oob)

\* the extraction loop from row i on: flotData so far, timestamp of row i
ExtractRows(f, a, dsIndex, i, endRowIndex, timestamp, step, flotData, oob) ==
    IF ~(i < endRowIndex) THEN [thrown |-> FALSE, data |-> flotData]
    ELSE LET el == getEl(f, a, i, dsIndex, oob)
         IN IF el.thrown THEN [thrown |-> TRUE, data |-> <<>>]
            ELSE ExtractRows(f, a, dsIndex, i + 1, endRowIndex,
                             timestamp + step, step,
                             Append(flotData, <<ToJsTime(timestamp), el.val>>),
                             oob)

\* mutant: the first archive of the file is taken
FirstUpdated_first(f) ==
    LET rra == getRRA(f, 0)
    IN getLastUpdate(f) - (rra.rows - 1) * rra.step

\* firstUpdated, from the last archive of the file
FirstUpdated(f) ==
    LET rra == getRRA(f, getNrRRAs(f) - 1)
    IN getLastUpdate(f) - (rra.rows - 1) * rra.step

\* what a call leaves behind when it throws before the archive loop
NoLocals == [rra |-> 0 - 1, step |-> 0, rraRowCount |-> 0,
             lastRowTime |-> 0, firstRowTime |-> 0,
             startTime |-> 0, endTime |-> 0, dsIndex |-> 0 - 1, cfName |-> "",
             startRowTime |-> 0, endRowTime |-> 0,
             startRowIndex |-> 0, endRowIndex |-> 0]

NoRet == [kind |-> "none", error |-> "", errCf |-> "", label |-> "",
          data |-> <<>>, unit |-> "", firstUpdated |-> 0, lastUpdated |-> 0]

Throw(error, cf) == [NoRet EXCEPT !.kind = "throw", !.error = error, !.errCf = cf]

\* The whole of getData: the outcome (ret), the values of the local
\* variables when the call ends (locals) and whether the assignment to the
\* undeclared variable firstUpdated was reached (wroteGlobal).
getData(f, unit, startTimeJs, endTimeJs, dsId, cfName0, oob) ==
    IF RangeCheckFails(startTimeJs, endTimeJs)
    THEN [ret |-> Throw("RangeError", ""), locals |-> NoLocals,
          wroteGlobal |-> FALSE]
    ELSE
    LET startTime == StartTime(startTimeJs)
        lastUpdated == getLastUpdate(f)
        endTime == EndTime(f, endTimeJs)
        ds == LookupDS(f, dsId)
        loc0 == [NoLocals EXCEPT !.startTime = startTime, !.endTime = endTime]
    IN
    IF ~ds.found
    THEN [ret |-> Throw("LookupError", ""), locals |-> loc0,
          wroteGlobal |-> FALSE]
    ELSE
    LET cfName == DefaultCfName(cfName0)
        sel == SelectRRA(f, startTime, cfName, 0, NoRRA)
        loc1 == [loc0 EXCEPT !.rra = sel.rra, !.step = sel.step,
                             !.rraRowCount = sel.rraRowCount,
                             !.lastRowTime = sel.lastRowTime,
                             !.firstRowTime = sel.firstRowTime,
                             !.cfName = cfName]
    IN
    IF StepUnset(sel.step)
    THEN [ret |-> Throw("TypeError", cfName), locals |-> loc1,
          wroteGlobal |-> FALSE]
    ELSE
    LET dsIndex == ds.idx
        endRowTime == EndRowTime(sel.lastRowTime, endTime, sel.step)
        startRowTime == StartRowTime(sel.firstRowTime, startTime, sel.step,
                                     endRowTime)
        startRowIndex == RowIndex(sel.rraRowCount, sel.lastRowTime,
                                  startRowTime, sel.step)
        endRowIndex == RowIndex(sel.rraRowCount, sel.lastRowTime,
                                endRowTime, sel.step)
        loc2 == [loc1 EXCEPT !.dsIndex = dsIndex,
                             !.startRowTime = startRowTime,
                             !.endRowTime = endRowTime,
                             !.startRowIndex = startRowIndex,
                             !.endRowIndex = endRowIndex]
        ex == ExtractRows(f, sel.rra, dsIndex, startRowIndex, endRowIndex,
                          startRowTime, sel.step, <<>>, oob)
    IN
    IF ex.thrown
    THEN [ret |-> Throw("CellRangeError", ""), locals |-> loc2,
          wroteGlobal |-> FALSE]
    ELSE [ret |-> [kind |-> "return", error |-> "", errCf |-> "",
                   label |-> ds.name, data |-> ex.data, unit |-> unit,
                   firstUpdated |-> ToJsTime(FirstUpdated(f)),
                   lastUpdated |-> ToJsTime(lastUpdated)],
          locals |-> loc2, wroteGlobal |-> TRUE]

\* mutant: the assignment keeps a value that is already there and later
AssignFirstUpdated_later(global, f) ==
    IF global.set /\ global.val > FirstUpdated(f) THEN global
    ELSE [set |-> TRUE, val |-> FirstUpdated(f)]

\* firstUpdated = ..., an assignment to an undeclared variable: the value
\* lands in the global of that name
AssignFirstUpdated(global, f) == [set |-> TRUE, val |-> FirstUpdated(f)]

\* getData run with the global firstUpdated as it is before the call: the
\* global after the call, and the record returned, whose firstUpdated field
\* is read back from the global
callGetData(global, f, unit, startTimeJs, endTimeJs, dsId, cfName, oob) ==
    Only({LET after == IF r.wroteGlobal THEN AssignFirstUpdated(global, f)
                       ELSE global
          IN [ret |-> IF r.wroteGlobal
                      THEN [r.ret EXCEPT !.firstUpdated = ToJsTime(after.val)]
                      ELSE r.ret,
              locals |-> r.locals,
              global |-> after] :
          r \in {getData(f, unit, startTimeJs, endTimeJs, dsId, cfName, oob)}})

\* jarmon.RrdQuery.prototype.getDSNames
getDSNames(f) == f.dsNames

\* ------------------------------------------------------------ the inputs
DsNames == <<"ds0", "ds1", "ds2">>

\* the file of the worked example: one AVERAGE archive, step 10, 100 rows
ExampleFile == [lastUpdate |-> 1000, minStep |-> 10,
                rras |-> <<[cf |-> "AVERAGE", step |-> 10, rows |-> 100]>>,
                dsNames |-> DsNames]

\* three archives in ascending order of span, the last update on a step
\* boundary of the first two
OrderedFile == [lastUpdate |-> 24, minStep |-> 2,
                rras |-> <<[cf |-> "AVERAGE", step |-> 2, rows |-> 3],
                           [cf |-> "AVERAGE", step |-> 4, rows |-> 5],
                           [cf |-> "MAX", step |-> 8, rows |-> 3]>>,
                dsNames |-> DsNames]

\* two archives whose steps do not divide one another, the last of them the
\* longest, the last update on a step boundary of the last one only
MixedStepFile == [lastUpdate |-> 27, minStep |-> 1,
                  rras |-> <<[cf |-> "AVERAGE", step |-> 4, rows |-> 2],
                             [cf |-> "AVERAGE", step |-> 3, rows |-> 3]>>,
                  dsNames |-> DsNames]

ArchiveShapes == {[cf |-> c, step |-> sr[1], rows |-> sr[2]] :
                  c \in {"AVERAGE", "MIN"},
                  sr \in {<<2, 3>>, <<4, 2>>, <<4, 5>>}}

RECURSIVE SeqsUpTo(_, _)
SeqsUpTo(S, n) ==
    IF n = 0 THEN {<<>>}
    ELSE LET shorter == SeqsUpTo(S, n - 1)
         IN shorter \cup {Append(q, x) : q \in shorter, x \in S}

GeneratedFiles == {[lastUpdate |-> u, minStep |-> 2, rras |-> r,
                    dsNames |-> DsNames] :
                   u \in {MaxLastUpdate},
                   r \in SeqsUpTo(ArchiveShapes, MaxRRAs) \ {<<>>}}

Files == {ExampleFile, OrderedFile, MixedStepFile} \cup GeneratedFiles

\* query times in milliseconds
Times == {TimeGrain * k : k \in (0 - 1)..MaxTick} \cup {1000, 500000, 1000000}
EndTimes == {Undefined} \cup {Num(t) : t \in Times}
DsIds == {Undefined, Num(1), Num(5), Str("ds2"), Str("nope")}
CfNames == {Undefined, Str("AVERAGE"), Str("MIN"), Str("average"), Str("BOGUS")}
OutOfRangeReads == {"throw", "nodata"}

\* ------------------------------------------------------------ the state
VARIABLES
    rrd,            \* this.rrd of the RrdQuery object
    unit,           \* this.unit
    pc,             \* "ready" after construction, "done" after the call
    args,           \* the arguments of the call made
    ret,            \* its outcome: the record returned or the error thrown
    locals,         \* the local variables of getData when it ended
    names,          \* the value returned by getDSNames
    firstUpdated,   \* the global variable getData assigns
    \* several RrdQuery objects called in turn
    queries,        \* the file of each RrdQuery object
    getElMode,      \* what the cell accessor does outside an archive
    log,            \* the calls made so far: object, arguments, outcome
    \* one jarmon.RrdQueryRemote
    lastUpdate,     \* this.lastUpdate
    _download,      \* this._download: a download number, 0 for null
    downloads,      \* the downloads started, by number
    requests,       \* the deferreds returned by getData and getDSNames
    served,         \* lastUpdate of the file the server holds now
    \* one jarmon.Parallimiter
    limitArg,       \* the argument the limiter was constructed with
    limit,          \* this.limit
    _callQueue,     \* this._callQueue, index 1 is the front of the array
    _currentCallCount,  \* this._currentCallCount
    callables,      \* the callables passed to addCallable, by number
    startOrder,     \* the callables in the order they were started
    \* one call of jarmon.Chart.fromRecipe
    recipes,        \* the argument recipes
    recipePc,       \* "ready" before the call, "built" after it
    dataDict,       \* the local dataDict: its own properties, url to remote
    remotes,        \* the RrdQueryRemote objects constructed, by number
    charts,         \* the list of charts returned
    forwarded       \* the last call made through a proxy of a chart

queryVars == <<rrd, unit, pc, args, ret, locals, names>>
callsVars == <<queries, getElMode, log>>
remoteVars == <<lastUpdate, _download, downloads, requests, served>>
limiterVars == <<limitArg, limit, _callQueue, _currentCallCount, callables, startOrder>>

recipeVars == <<recipes, recipePc, dataDict, remotes, charts, forwarded>>

vars == <<queryVars, firstUpdated, callsVars, remoteVars, limiterVars, recipeVars>>

\* the parts of the state a specification does not use stay as they are here
CallsUnused == queries = <<>> /\ getElMode = "" /\ log = <<>>
RemoteUnused ==
    /\ lastUpdate = 0 /\ _download = 0 /\ downloads = <<>> /\ requests = <<>>
    /\ served = 0
LimiterUnused ==
    /\ limitArg = Undefined /\ limit = 0 /\ _callQueue = <<>> /\ _currentCallCount = 0
    /\ callables = <<>> /\ startOrder = <<>>

RecipeUnused ==
    /\ recipes = <<>> /\ recipePc = "unused" /\ dataDict = <<>> /\ remotes = <<>>
    /\ charts = <<>> /\ forwarded = <<>>

NoArgs == [method |-> "", startTimeJs |-> 0, endTimeJs |-> Undefined, dsId |-> Undefined,
           cfName |-> Undefined, oob |-> ""]

\* new jarmon.RrdQuery(rrd, unit)
Init ==
    /\ rrd \in Files
    /\ unit = "bit/sec"
    /\ pc = "ready"
    /\ args = NoArgs
    /\ ret = NoRet
    /\ locals = NoLocals
    /\ names = <<>>
    /\ firstUpdated = [set |-> FALSE, val |-> 0]
    /\ CallsUnused /\ RemoteUnused /\ LimiterUnused /\ RecipeUnused

GetData ==
    /\ pc = "ready"
    /\ \E startTimeJs \in Times, endTimeJs \in EndTimes, dsId \in DsIds,
          cfName \in CfNames, oob \in OutOfRangeReads :
          LET r == callGetData(firstUpdated, rrd, unit, startTimeJs, endTimeJs,
                               dsId, cfName, oob)
          IN /\ args' = [method |-> "getData", startTimeJs |-> startTimeJs,
                         endTimeJs |-> endTimeJs, dsId |-> dsId,
                         cfName |-> cfName, oob |-> oob]
             /\ ret' = r.ret
             /\ locals' = r.locals
             /\ firstUpdated' = r.global
    /\ pc' = "done"
    /\ UNCHANGED <<rrd, unit, names, callsVars, remoteVars, limiterVars, recipeVars>>

GetDSNames ==
    /\ pc = "ready"
    /\ names' = getDSNames(rrd)
    /\ args' = [NoArgs EXCEPT !.method = "getDSNames"]
    /\ pc' = "done"
    /\ UNCHANGED <<rrd, unit, ret, locals, firstUpdated>>
    /\ UNCHANGED <<callsVars, remoteVars, limiterVars, recipeVars>>

Next == GetData \/ GetDSNames

Spec == Init /\ [][Next]_vars

TypeOK ==
    /\ rrd \in Files
    /\ pc \in {"ready", "done", "unused"}
    /\ ret.kind \in {"none", "return", "throw"}

\* ------------------------------------------------- vocabulary of the claims
\* a getData call has been made
Called == pc = "done" /\ args.method = "getData"
Returned == Called /\ ret.kind = "return"
ThrewError(e) == Called /\ ret.kind = "throw" /\ ret.error = e

\* the consolidation function asked for, after the default
ReqCf == IF args.cfName.t = "undefined" THEN "AVERAGE" ELSE args.cfName.s
\* the data source asked for is one of the file
KnownDs ==
    \/ args.dsId.t = "undefined"
    \/ args.dsId.t = "number" /\ args.dsId.n \in 0..(Len(rrd.dsNames) - 1)
    \/ args.dsId.t = "string" /\ \E k \in DOMAIN rrd.dsNames : rrd.dsNames[k] = args.dsId.s
\* both times supplied and the window empty or inverted
SuppliedInverted ==
    args.endTimeJs.t = "number" /\ args.startTimeJs >= args.endTimeJs.n

\* archives by position in the file, from 0
Archives == 0..(Len(rrd.rras) - 1)
Matching == {i \in Archives : rrd.rras[i + 1].cf = ReqCf}
LastRowTimeOf(i) == rrd.lastUpdate - (rrd.lastUpdate % rrd.rras[i + 1].step)
FirstRowTimeOf(i) == LastRowTimeOf(i) - rrd.rras[i + 1].rows * rrd.rras[i + 1].step
Covering == {i \in Matching : FirstRowTimeOf(i) * 1000 <= args.startTimeJs}
Lowest(S) == CHOOSE i \in S : \A j \in S : i <= j
Highest(S) == CHOOSE i \in S : \A j \in S : i >= j

\* ------------------------------------------------------------------ C1
\* C1: a getData call with both times supplied and startTime >= endTime
\* throws RangeError and returns no result, whatever the file, the data
\* source and the consolidation function.
Thm_C1 == (Called /\ SuppliedInverted) => ThrewError("RangeError")

Wit_C1 ==
    /\ Called
    /\ args.startTimeJs = 1000 /\ args.endTimeJs = Num(1000)
    /\ ThrewError("RangeError")

\* ------------------------------------------------------------------ C2
\* C2: with endTime omitted, the end time defaults to
\* lastUpdate - lastUpdate % minStep, and a startTime (seconds) at or after
\* it makes the call throw RangeError.
Claim_C2 ==
    (/\ Called
     /\ args.endTimeJs.t = "undefined"
     /\ args.startTimeJs >= (rrd.lastUpdate - (rrd.lastUpdate % rrd.minStep)) * 1000)
    => ThrewError("RangeError")

\* ------------------------------------------------------------------ C3
\* C3: when some archive with exactly the requested consolidation function
\* has firstRowTime <= startTime, the query uses the first such archive in
\* file order: its step, row count and row times, and its cells; that
\* archive has the requested consolidation function.
Thm_C3 ==
    (Called /\ ~SuppliedInverted /\ KnownDs /\ Covering # {}) =>
        LET c == Lowest(Covering)
        IN /\ locals.rra = c
           /\ rrd.rras[locals.rra + 1].cf = ReqCf
           /\ \A j \in Matching : j < c => FirstRowTimeOf(j) * 1000 > args.startTimeJs
           /\ locals.step = rrd.rras[c + 1].step
           /\ locals.rraRowCount = rrd.rras[c + 1].rows
           /\ locals.firstRowTime = FirstRowTimeOf(c)
           /\ locals.lastRowTime = LastRowTimeOf(c)
           /\ Returned
           /\ \A k \in DOMAIN ret.data :
                 ret.data[k][2] =
                     CellValue(rrd, c, locals.startRowIndex + k - 1, locals.dsIndex)

\* the second matching archive is the first that covers the start time and
\* it serves a non-empty series
Wit_C3 ==
    /\ Returned
    /\ Covering # {}
    /\ \E j \in Matching : j < Lowest(Covering)
    /\ locals.rra = Lowest(Covering)
    /\ Len(ret.data) > 0

\* ------------------------------------------------------------------ C4
\* C4: when archives match the requested consolidation function but none
\* has firstRowTime <= startTime, the query succeeds and the step, the row
\* window and every sample value come from the last matching archive.
Claim_C4 ==
    (Called /\ ~SuppliedInverted /\ KnownDs /\ Matching # {} /\ Covering = {}) =>
        LET m == Highest(Matching)
        IN /\ Returned
           /\ locals.step = rrd.rras[m + 1].step
           /\ locals.rraRowCount = rrd.rras[m + 1].rows
           /\ locals.firstRowTime = FirstRowTimeOf(m)
           /\ locals.lastRowTime = LastRowTimeOf(m)
           /\ \A k \in DOMAIN ret.data :
                 ret.data[k][2] =
                     CellValue(rrd, m, locals.startRowIndex + k - 1, locals.dsIndex)

\* ------------------------------------------------------------------ C5
\* C5: with a valid window and a known data source, a consolidation function
\* that no archive has (compared exactly, case included) makes the call
\* throw the unrecognised-consolidation-function error naming it; when an
\* archive with a positive step has that function, the error is not thrown.
Thm_C5 ==
    (Called /\ ~SuppliedInverted /\ KnownDs) =>
        /\ Matching = {} =>
              /\ ThrewError("TypeError")
              /\ ret.errCf = ReqCf
        /\ (\E i \in Matching : rrd.rras[i + 1].step > 0) =>
              ~ThrewError("TypeError")

\* "average" is asked of a file that has AVERAGE archives
Wit_C5 ==
    /\ ThrewError("TypeError")
    /\ args.cfName = Str("average")
    /\ ret.errCf = "average"
    /\ \E i \in Archives : rrd.rras[i + 1].cf = "AVERAGE"

\* ------------------------------------------------------------------ C6
\* C6 as stated: an identifier the data-source lookup does not know makes
\* the call throw the lookup's not-found error.
Orig_C6 == (Called /\ ~KnownDs) => ThrewError("LookupError")

\* C6 amended: an identifier the data-source lookup does not know never
\* yields a result and never falls back to another data source: the call
\* throws the lookup's not-found error, except that a window with both times
\* supplied and startTime >= endTime throws RangeError first.
Thm_C6 ==
    (Called /\ ~KnownDs) =>
        /\ ret.kind = "throw"
        /\ ret.label = ""
        /\ IF SuppliedInverted THEN ret.error = "RangeError"
           ELSE ret.error = "LookupError"

\* index 5 on a file with 3 data sources
Wit_C6 ==
    /\ ThrewError("LookupError")
    /\ args.dsId = Num(5)
    /\ Len(rrd.dsNames) = 3

\* ------------------------------------------------------------------ C7
\* the cell the code reads at row i of the archive object it holds
CellRead(i) ==
    IF i >= 0 /\ i < rrd.rras[locals.rra + 1].rows
    THEN CellValue(rrd, locals.rra, i, locals.dsIndex)
    ELSE NaN

\* C7: extraction is half-open.  A returned series has exactly
\* (endRowTime - startRowTime)/step samples, the k-th (from 0) being
\* [(startRowTime + k*step)*1000, cell(startRowIndex + k, dsIndex)], so the
\* row at endRowIndex is not read; on the example file the window
\* 500000..1000000 ms gives the 50 samples of t = 500 s, 510 s, ..., 990 s.
Thm_C7 ==
    Returned =>
        /\ Len(ret.data) * locals.step = locals.endRowTime - locals.startRowTime
        /\ Len(ret.data) = locals.endRowIndex - locals.startRowIndex
        /\ \A k \in 0..(Len(ret.data) - 1) :
              ret.data[k + 1] =
                  <<(locals.startRowTime + k * locals.step) * 1000,
                    CellRead(locals.startRowIndex + k)>>
        /\ (/\ rrd = ExampleFile
            /\ args.startTimeJs = 500000
            /\ args.endTimeJs = Num(1000000)) =>
              /\ Len(ret.data) = 50
              /\ \A k \in 0..49 : ret.data[k + 1][1] = (500 + 10 * k) * 1000

Wit_C7 ==
    /\ Returned
    /\ rrd = ExampleFile
    /\ args.startTimeJs = 500000
    /\ args.endTimeJs = Num(1000000)
    /\ Len(ret.data) = 50
    /\ ret.data[1][1] = 500000
    /\ ret.data[50][1] = 990000

\* ------------------------------------------------------------------ C8
\* the archive whose step and rows the query works with: the first matching
\* archive that covers the start time, else the last matching archive
Chosen == IF Covering # {} THEN Lowest(Covering) ELSE Highest(Matching)

\* C8: the timestamps of a returned series ascend and consecutive ones
\* differ by exactly the chosen archive's step times 1000.
Thm_C8 ==
    Returned =>
        \A k \in 1..(Len(ret.data) - 1) :
            /\ ret.data[k][1] < ret.data[k + 1][1]
            /\ ret.data[k + 1][1] - ret.data[k][1] = rrd.rras[Chosen + 1].step * 1000

\* a series of at least three samples from an archive of step 4
Wit_C8 ==
    /\ Returned
    /\ Len(ret.data) >= 3
    /\ rrd.rras[Chosen + 1].step = 4
    /\ ret.data[2][1] - ret.data[1][1] = 4000

\* ------------------------------------------------------------------ C9
\* C9: every timestamp t of a returned series has
\* startRowTime*1000 <= t <= endRowTime*1000 and t/1000 a multiple of the
\* chosen archive's step, with endRowTime = min(lastRowTime, endTime -
\* endTime % step) and startRowTime = min(max(firstRowTime, startTime -
\* startTime % step), endRowTime); no sample is later than lastRowTime or the
\* requested end time, nor earlier than firstRowTime.
Thm_C9 ==
    Returned =>
        LET step == rrd.rras[Chosen + 1].step
            endTime == IF args.endTimeJs.t = "number" /\ args.endTimeJs.n # 0
                       THEN args.endTimeJs.n
                       ELSE (rrd.lastUpdate - (rrd.lastUpdate % rrd.minStep)) * 1000
            endQ == Quantize(endTime, step)
            startQ == Quantize(args.startTimeJs, step)
            endRowTime == IF LastRowTimeOf(Chosen) <= endQ
                          THEN LastRowTimeOf(Chosen) ELSE endQ
            startMax == IF FirstRowTimeOf(Chosen) >= startQ
                        THEN FirstRowTimeOf(Chosen) ELSE startQ
            startRowTime == IF startMax <= endRowTime THEN startMax ELSE endRowTime
        IN \A k \in DOMAIN ret.data :
              LET t == ret.data[k][1]
              IN /\ startRowTime * 1000 <= t
                 /\ t <= endRowTime * 1000
                 /\ t % 1000 = 0
                 /\ (t \div 1000) % step = 0
                 /\ t <= LastRowTimeOf(Chosen) * 1000
                 /\ t <= endTime
                 /\ t >= FirstRowTimeOf(Chosen) * 1000

\* the requested window reaches beyond both ends of the chosen archive
Wit_C9 ==
    /\ Returned
    /\ Len(ret.data) > 0
    /\ args.endTimeJs.t = "number"
    /\ args.endTimeJs.n > LastRowTimeOf(Chosen) * 1000
    /\ args.startTimeJs < FirstRowTimeOf(Chosen) * 1000
    /\ ret.data[1][1] = FirstRowTimeOf(Chosen) * 1000

\* ----------------------------------------------------------------- C10
\* C10: a returned result has lastUpdated = lastUpdate*1000 and
\* firstUpdated = (lastUpdate - (rowCount - 1)*step)*1000 of the last archive
\* of the file, whatever the window, the data source, the consolidation
\* function and the archive that served the series.
Thm_C10 ==
    Returned =>
        LET last == rrd.rras[Len(rrd.rras)]
        IN /\ ret.lastUpdated = rrd.lastUpdate * 1000
           /\ ret.firstUpdated = (rrd.lastUpdate - (last.rows - 1) * last.step) * 1000

\* the series came from an archive that is not the last one and whose
\* own first update differs
Wit_C10 ==
    /\ Returned
    /\ Len(ret.data) > 0
    /\ locals.rra # Len(rrd.rras) - 1
    /\ Chosen # Len(rrd.rras) - 1
    /\ (rrd.rras[Chosen + 1].rows - 1) * rrd.rras[Chosen + 1].step
         # (rrd.rras[Len(rrd.rras)].rows - 1) * rrd.rras[Len(rrd.rras)].step

\* ----------------------------------------------------------------- C11
\* the row window of the query, from the metadata of the file and the
\* arguments alone
WinEndTime == IF args.endTimeJs.t = "number" /\ args.endTimeJs.n # 0
              THEN args.endTimeJs.n
              ELSE (rrd.lastUpdate - (rrd.lastUpdate % rrd.minStep)) * 1000
WinEndRowTime ==
    LET q == Quantize(WinEndTime, rrd.rras[Chosen + 1].step)
    IN IF LastRowTimeOf(Chosen) <= q THEN LastRowTimeOf(Chosen) ELSE q
WinStartRowTime ==
    LET q == Quantize(args.startTimeJs, rrd.rras[Chosen + 1].step)
        m == IF FirstRowTimeOf(Chosen) >= q THEN FirstRowTimeOf(Chosen) ELSE q
    IN IF m <= WinEndRowTime THEN m ELSE WinEndRowTime
WinRows == (WinEndRowTime - WinStartRowTime) \div rrd.rras[Chosen + 1].step
WinFirstRow ==
    rrd.rras[Chosen + 1].rows
        - ((LastRowTimeOf(Chosen) - WinStartRowTime) \div rrd.rras[Chosen + 1].step)

\* C11: no row is skipped.  The number of samples and their timestamps are
\* those of the row window, which the metadata and the arguments fix, and a
\* cell that holds no data appears at its own timestamp as the no-data
\* marker.
Thm_C11 ==
    Returned =>
        /\ Len(ret.data) = WinRows
        /\ \A k \in 0..(WinRows - 1) :
              /\ ret.data[k + 1][1] =
                     (WinStartRowTime + k * rrd.rras[Chosen + 1].step) * 1000
              /\ CellRead(WinFirstRow + k) = NaN => ret.data[k + 1][2] = NaN
              /\ CellRead(WinFirstRow + k) # NaN =>
                     ret.data[k + 1][2] = CellRead(WinFirstRow + k)

\* a series with a no-data sample between two samples that hold data
Wit_C11 ==
    /\ Returned
    /\ Len(ret.data) >= 3
    /\ \E k \in 2..(Len(ret.data) - 1) :
          /\ ret.data[k][2] = NaN
          /\ ret.data[k - 1][2] # NaN
          /\ ret.data[k + 1][2] # NaN
          /\ ret.data[k][1] - ret.data[k - 1][1] = ret.data[k + 1][1] - ret.data[k][1]

\* ----------------------------------------------------------------- C13
\* lastUpdate - lastUpdate % minStep, the end time of a call without endTime
DefaultEnd == rrd.lastUpdate - (rrd.lastUpdate % rrd.minStep)

\* C13: a query without endTime returns what the same query returns with
\* endTime = (lastUpdate - lastUpdate % minStep)*1000, for every startTime
\* below that value.
Thm_C13 ==
    (/\ Called
     /\ args.endTimeJs.t = "undefined"
     /\ args.startTimeJs < DefaultEnd * 1000) =>
        ret = getData(rrd, unit, args.startTimeJs, Num(DefaultEnd * 1000),
                      args.dsId, args.cfName, args.oob).ret

\* a query without endTime that returned samples
Wit_C13 ==
    /\ Returned
    /\ args.endTimeJs.t = "undefined"
    /\ args.startTimeJs < DefaultEnd * 1000
    /\ Len(ret.data) >= 2
    /\ ret.data[Len(ret.data)][1] < DefaultEnd * 1000

\* ----------------------------------------------------------------- C14
\* C14: a query with dataSourceId and consolidationFunction both omitted
\* returns what the same query returns with dataSourceId = 0 and
\* consolidationFunction = "AVERAGE".
Thm_C14 ==
    (Called /\ args.dsId.t = "undefined" /\ args.cfName.t = "undefined") =>
        ret = getData(rrd, unit, args.startTimeJs, args.endTimeJs,
                      Num(0), Str("AVERAGE"), args.oob).ret

\* both omitted, on a file with a MIN archive before the AVERAGE one, and
\* the series of data source ds0 is returned
Wit_C14 ==
    /\ Returned
    /\ args.dsId.t = "undefined" /\ args.cfName.t = "undefined"
    /\ rrd.rras[1].cf = "MIN"
    /\ ret.label = "ds0"
    /\ Len(ret.data) > 0

\* ======================================================================
\* Several RrdQuery objects, each on its own file, called one after the
\* other in one page: they share the global firstUpdated.
\* ======================================================================
\* most calls made in one behaviour
MaxCalls == 3

SpanFile == [lastUpdate |-> 21, minStep |-> 2,
             rras |-> <<[cf |-> "AVERAGE", step |-> 2, rows |-> 3],
                        [cf |-> "MIN", step |-> 4, rows |-> 5]>>,
             dsNames |-> DsNames]
CallFiles == {SpanFile, OrderedFile}

Query(startTimeJs, endTimeJs, dsId, cfName) ==
    [startTimeJs |-> startTimeJs, endTimeJs |-> endTimeJs, dsId |-> dsId,
     cfName |-> cfName]
CallQueries ==
    {Query(0, Undefined, Undefined, Undefined),
     Query(12500, Num(25000), Undefined, Undefined),
     Query(12500, Num(12500), Undefined, Undefined),
     Query(0, Undefined, Num(5), Undefined),
     Query(0, Undefined, Undefined, Str("BOGUS")),
     Query(0, Num(25000), Str("ds2"), Str("MIN"))}

\* two RrdQuery objects are constructed
InitCalls ==
    /\ queries \in [1..2 -> CallFiles]
    /\ getElMode \in OutOfRangeReads
    /\ log = <<>>
    /\ firstUpdated = [set |-> FALSE, val |-> 0]
    /\ rrd = ExampleFile /\ unit = "bit/sec" /\ pc = "unused"
    /\ args = NoArgs /\ ret = NoRet /\ locals = NoLocals /\ names = <<>>
    /\ RemoteUnused /\ LimiterUnused /\ RecipeUnused

\* object o: getData(q.startTimeJs, q.endTimeJs, q.dsId, q.cfName)
GetDataOn(o, q) ==
    /\ Len(log) < MaxCalls
    /\ LET r == callGetData(firstUpdated, queries[o], unit, q.startTimeJs,
                            q.endTimeJs, q.dsId, q.cfName, getElMode)
       IN /\ log' = Append(log, [obj |-> o, method |-> "getData", args |-> q,
                                 file |-> queries[o], ret |-> r.ret,
                                 names |-> <<>>])
          /\ firstUpdated' = r.global
    /\ UNCHANGED <<queries, getElMode, queryVars, remoteVars, limiterVars, recipeVars>>

\* object o: getDSNames()
GetDSNamesOn(o) ==
    /\ Len(log) < MaxCalls
    /\ log' = Append(log, [obj |-> o, method |-> "getDSNames",
                           args |-> Query(0, Undefined, Undefined, Undefined),
                           file |-> queries[o], ret |-> NoRet,
                           names |-> getDSNames(queries[o])])
    /\ UNCHANGED <<queries, getElMode, firstUpdated, queryVars, remoteVars,
                   limiterVars, recipeVars>>

NextCalls ==
    \/ \E o \in DOMAIN queries, q \in CallQueries : GetDataOn(o, q)
    \/ \E o \in DOMAIN queries : GetDSNamesOn(o)

SpecCalls == InitCalls /\ [][NextCalls]_vars

\* ----------------------------------------------------------------- C12
\* C12: getData is stateless and deterministic.  Two calls with the same
\* arguments on the same object have the same outcome, whatever calls were
\* made in between on this or another object, and every call finds the file
\* the object was constructed with.
Thm_C12 ==
    /\ \A i, j \in DOMAIN log :
          (/\ log[i].obj = log[j].obj
           /\ log[i].method = log[j].method
           /\ log[i].args = log[j].args) =>
              /\ log[i].ret = log[j].ret
              /\ log[i].names = log[j].names
    /\ \A i \in DOMAIN log : log[i].file = queries[log[i].obj]

\* the same query returned twice on one object, a query on another object
\* with another file returned in between
Wit_C12 ==
    /\ Len(log) = 3
    /\ log[1].obj = log[3].obj /\ log[1].args = log[3].args
    /\ log[1].method = "getData" /\ log[3].method = "getData"
    /\ log[2].obj # log[1].obj /\ log[2].method = "getData"
    /\ queries[1] # queries[2]
    /\ log[1].ret.kind = "return" /\ log[2].ret.kind = "return"
    /\ log[2].ret.firstUpdated # log[1].ret.firstUpdated
    /\ log[3].ret = log[1].ret

\* ======================================================================
\* jarmon.RrdQueryRemote: one remote file, its downloads and the deferreds
\* handed to the callers.
\* ======================================================================
\* most getData / getDSNames calls and most downloads in one behaviour
MaxRequests == 3
MaxDownloads == 3
\* the server's file is updated at most this many times
MaxUpdates == 1

\* the file the server holds when its last update is at second L
RemoteFile(L) == [lastUpdate |-> L, minStep |-> 2,
                  rras |-> <<[cf |-> "AVERAGE", step |-> 2, rows |-> 3],
                             [cf |-> "MIN", step |-> 4, rows |-> 5]>>,
                  dsNames |-> DsNames]
\* the file changes every 4 seconds from second 20 on
ServedAt(k) == 20 + 4 * k

\* the direct calls: inside every file served, ending after the first file
\* served, inverted, and an unknown data source without endTime
RemoteQueries ==
    {Query(10000, Num(18000), Undefined, Undefined),
     Query(10000, Num(22000), Undefined, Undefined),
     Query(22000, Num(18000), Undefined, Undefined),
     Query(10000, Undefined, Num(5), Undefined)}
\* the window asked through a RrdQueryDsProxy and the data source it is
\* bound to
ProxyWindows == {<<10000, Num(22000)>>}
ProxyDsIds == {Num(1)}
\* errors of a download: the transport fails
DownloadErrors == {"TransportError"}

\* the value a download's callback chain carries: the parsed file (by its
\* last update), an Error, or undefined
RrdResult(L) == [kind |-> "rrd", L |-> L, error |-> ""]
ErrorResult(e) == [kind |-> "error", L |-> 0, error |-> e]
UndefinedResult == [kind |-> "undefined", L |-> 0, error |-> ""]

\* this.downloader(this.url).addCallback(...): a download in progress of the
\* file the server holds now
NewDownload(L) == [state |-> "pending", L |-> L, error |-> "",
                   result |-> UndefinedResult, waiters |-> <<>>]

\* new MochiKit.Async.Deferred().addCallback(...): the deferred handed to
\* the caller, attached to download dl
NewRequest(method, q, dl) ==
    [method |-> method, q |-> q, dl |-> dl, state |-> "pending",
     error |-> "", ret |-> NoRet, names |-> <<>>]

\* if (this.lastUpdate < endTime/1000) this._download = null; a comparison
\* with NaN (endTime undefined) is false
Invalidate(lu, endTimeJs, dl) ==
    IF endTimeJs.t = "number" /\ lu * 1000 < endTimeJs.n THEN 0 ELSE dl

\* ------------------------------------- jrrd.RrdQuery.prototype.getData
\* (src/jrrd.js) startTime and endTime are Dates, given here by their
\* getTime() in milliseconds.  startTimestamp and endTimestamp are the
\* doubles getTime()/1000, and the row numbers come from
\* parseInt((lastUpdated - t)/step), which reads the digits of the decimal
\* string of a double: the subtraction, the divisions and the conversion to
\* a string are computed below as IEEE 754 does them.  A natural number
\* too wide for an integer of the checker is a sequence of digits in base
\* 2^10, lowest first, without leading zeros.
LimbBits == 10
Base == 1024

\* 2^k, and the number of binary digits of the integer n >= 0
RECURSIVE Pow2(_)
Pow2(k) == IF k = 0 THEN 1 ELSE 2 * Pow2(k - 1)
RECURSIVE IntBits(_)
IntBits(n) == IF n = 0 THEN 0 ELSE 1 + IntBits(n \div 2)

\* the digits of the integer n >= 0, and the integer with the digits x
RECURSIVE BigOf(_)
BigOf(n) == IF n = 0 THEN <<>> ELSE <<n % Base>> \o BigOf(n \div Base)
RECURSIVE BigValue(_)
BigValue(x) == IF Len(x) = 0 THEN 0 ELSE x[1] + Base * BigValue(Tail(x))

RECURSIVE Trim(_)
Trim(x) ==
    IF Len(x) = 0 \/ x[Len(x)] # 0 THEN x ELSE Trim(SubSeq(x, 1, Len(x) - 1))

LimbAt(x, i) == IF i \in 1..Len(x) THEN x[i] ELSE 0

RECURSIVE AddFrom(_, _, _, _, _)
AddFrom(x, y, i, carry, sum) ==
    IF i > Len(x) /\ i > Len(y)
    THEN IF carry = 1 THEN Append(sum, 1) ELSE sum
    ELSE AddFrom(x, y, i + 1, (LimbAt(x, i) + LimbAt(y, i) + carry) \div Base,
                 Append(sum, (LimbAt(x, i) + LimbAt(y, i) + carry) % Base))
BigAdd(x, y) == AddFrom(x, y, 1, 0, <<>>)

\* x - y for x >= y
RECURSIVE SubFrom(_, _, _, _, _)
SubFrom(x, y, i, borrow, diff) ==
    IF i > Len(x) THEN Trim(diff)
    ELSE SubFrom(x, y, i + 1,
                 IF x[i] - LimbAt(y, i) - borrow < 0 THEN 1 ELSE 0,
                 Append(diff, (Base + x[i] - LimbAt(y, i) - borrow) % Base))
BigSub(x, y) == SubFrom(x, y, 1, 0, <<>>)

RECURSIVE LessFrom(_, _, _)
LessFrom(x, y, i) ==
    IF i = 0 THEN FALSE
    ELSE IF x[i] # y[i] THEN x[i] < y[i]
    ELSE LessFrom(x, y, i - 1)
BigLess(x, y) == IF Len(x) # Len(y) THEN Len(x) < Len(y) ELSE LessFrom(x, y, Len(x))

\* x * n for an integer n in 0..2^21 - 1
RECURSIVE MulFrom(_, _, _, _, _)
MulFrom(x, n, i, carry, prod) ==
    IF i > Len(x) THEN Trim(prod \o BigOf(carry))
    ELSE MulFrom(x, n, i + 1, (x[i] * n + carry) \div Base,
                 Append(prod, (x[i] * n + carry) % Base))
BigMul(x, n) == MulFrom(x, n, 1, 0, <<>>)

\* x * 10^n
RECURSIVE Times10(_, _)
Times10(x, n) == IF n = 0 THEN x ELSE Times10(BigMul(x, 10), n - 1)

\* the digits i..1 of x divided by den in 1..2^21 - 1, r being what the
\* digits above i left over: the quotient q and the remainder r
RECURSIVE DivFrom(_, _, _, _, _)
DivFrom(x, den, i, r, q) ==
    IF i = 0 THEN [q |-> Trim(q), r |-> r]
    ELSE DivFrom(x, den, i - 1, (Base * r + x[i]) % den,
                 <<(Base * r + x[i]) \div den>> \o q)
BigDiv(x, den) == DivFrom(x, den, Len(x), 0, <<>>)

\* the number of binary digits of x, and its binary digit i (1 the lowest)
BitLen(x) == IF Len(x) = 0 THEN 0 ELSE LimbBits * (Len(x) - 1) + IntBits(x[Len(x)])
BitAt(x, i) ==
    (LimbAt(x, (i - 1) \div LimbBits + 1) \div Pow2((i - 1) % LimbBits)) % 2

\* x * 2^k and the integer part of x / 2^k
Shl(x, k) ==
    IF Len(x) = 0 THEN <<>>
    ELSE [i \in 1..(k \div LimbBits) |-> 0] \o BigMul(x, Pow2(k % LimbBits))
Shr(x, k) ==
    IF BitLen(x) <= k THEN <<>>
    ELSE BigDiv(SubSeq(x, k \div LimbBits + 1, Len(x)), Pow2(k % LimbBits)).q

\* the width of the significand of a double
MantissaBits == 53

\* a double above 0 is [m, e] with the value m * 2^e, m of 53 digits
\* the double nearest to (n + f) * 2^e, where 0 < f < 1 if sticky and f = 0
\* if not: round to nearest, ties to even
RoundsUp(n, sticky) ==
    /\ BitAt(n, BitLen(n) - MantissaBits) = 1
    /\ \/ sticky
       \/ BitAt(n, BitLen(n) - MantissaBits + 1) = 1
       \/ \E i \in 1..(BitLen(n) - MantissaBits - 1) : BitAt(n, i) = 1
Carried(m, e) ==
    IF BitLen(m) > MantissaBits THEN [m |-> Shr(m, 1), e |-> e + 1] ELSE [m |-> m, e |-> e]
DoubleRound(n, sticky, e) ==
    IF BitLen(n) <= MantissaBits
    THEN [m |-> Shl(n, MantissaBits - BitLen(n)), e |-> e - (MantissaBits - BitLen(n))]
    ELSE Carried(IF RoundsUp(n, sticky)
                 THEN BigAdd(Shr(n, BitLen(n) - MantissaBits), <<1>>)
                 ELSE Shr(n, BitLen(n) - MantissaBits),
                 e + BitLen(n) - MantissaBits)

\* the double of the integer n > 0
DoubleOfInt(n) == DoubleRound(BigOf(n), FALSE, 0)

\* x / den for a double x above 0 and an integer den in 1..2^21 - 1: the
\* quotient is taken to 33 binary digits more than x has, which leaves it
\* at least 55, and rounded
DoubleDiv(x, den) ==
    Only({DoubleRound(d.q, d.r # 0, x.e - 33) : d \in {BigDiv(Shl(x.m, 33), den)}})

\* lastUpdated - t for the integer lastUpdated >= 0 and the double t of
\* tMilli/1000 (tMilli # 0, the exponent of t is below 0): the sign and the
\* size of the difference, size 0 for the difference 0; the exact
\* difference is rounded
DoubleDiff(lastUpdated, tMilli, t) ==
    Only({IF tMilli < 0
          THEN [neg |-> FALSE, zero |-> FALSE,
                abs |-> DoubleRound(BigAdd(lu, t.m), FALSE, t.e)]
          ELSE IF BigLess(lu, t.m)
          THEN [neg |-> TRUE, zero |-> FALSE,
                abs |-> DoubleRound(BigSub(t.m, lu), FALSE, t.e)]
          ELSE IF BigLess(t.m, lu)
          THEN [neg |-> FALSE, zero |-> FALSE,
                abs |-> DoubleRound(BigSub(lu, t.m), FALSE, t.e)]
          ELSE [neg |-> FALSE, zero |-> TRUE, abs |-> t] :
          lu \in {Shl(BigOf(lastUpdated), 0 - t.e)}})

\* whether the decimal c * 10^-n is at most the upper end of the numbers
\* that round to the double q: the shortest decimal string of q is then at
\* least c * 10^-n
RoundsFrom(q, c, n) ==
    Only({BigLess(z, y) \/ (~BigLess(y, z) /\ BitAt(q.m, 1) = 0) :
          y \in {Times10(BigAdd(Shl(q.m, 1), <<1>>), n)},
          z \in {Shl(BigOf(c), 1 - q.e)}})

\* the first digit of the decimal string of the double q below 1e-6: x is
\* q.m * 10^n; the first n at which x reaches 2^-q.e gives the first digit
\* of the value of q, and the string is the shortest that reads back as q
RECURSIVE FirstDigit(_, _, _)
FirstDigit(q, x, n) ==
    IF BitLen(x) <= 0 - q.e THEN FirstDigit(q, BigMul(x, 10), n + 1)
    ELSE Only({IF RoundsFrom(q, d + 1, n) THEN (IF d = 9 THEN 1 ELSE d + 1) ELSE d :
               d \in {BigValue(Shr(x, 0 - q.e))}})

\* parseInt(q) for a double q above 0.  parseInt converts q to a string and
\* reads the digits before the first character that is not a digit: a
\* number of at least 1e-6 is written in positional notation and gives its
\* integer part; a smaller one is written with an exponent
\* ("3.999999999997783e-7") and gives its first digit
ParseIntAbs(q) ==
    IF q.e >= 0 THEN BigValue(Shl(q.m, q.e))
    ELSE IF BitLen(q.m) > 0 - q.e THEN BigValue(Shr(q.m, 0 - q.e))
    ELSE IF BitLen(Times10(q.m, 6)) > 0 - q.e \/ RoundsFrom(q, 1, 6) THEN 0
    ELSE FirstDigit(q, Times10(q.m, 7), 7)

\* parseInt((lastUpdated - t)/step), t being tMilli/1000 and step above 0
ParseIntDiv(lastUpdated, tMilli, step) ==
    Only({IF d.zero THEN 0
          ELSE IF d.neg THEN 0 - ParseIntAbs(DoubleDiv(d.abs, step))
          ELSE ParseIntAbs(DoubleDiv(d.abs, step)) :
          d \in {IF tMilli = 0
                 THEN [neg |-> FALSE, zero |-> lastUpdated = 0,
                       abs |-> DoubleOfInt(lastUpdated)]
                 ELSE DoubleDiff(lastUpdated, tMilli,
                                 DoubleDiv(DoubleOfInt(IF tMilli < 0 THEN 0 - tMilli
                                                       ELSE tMilli), 1000))}})

\* endTimestamp: the end time, reset to lastUpdated when beyond it
JrrdEndTimestamp(f, endMs) == Min2(endMs, getLastUpdate(f) * 1000)

\* the archive loop of jrrd from iteration i on
RECURSIVE JrrdSelectRRA(_, _, _, _, _)
JrrdSelectRRA(f, startMs, cfName, i, loc) ==
    IF i >= getNrRRAs(f) THEN loc
    ELSE IF CFDiffers(getRRA(f, i).cf, cfName)
    THEN JrrdSelectRRA(f, startMs, cfName, i + 1, [loc EXCEPT !.rra = i])
    ELSE LET loc2 == [rra |-> i, step |-> getRRA(f, i).step,
                      rraRowCount |-> getRRA(f, i).rows,
                      firstUpdated |-> getLastUpdate(f)
                           - (getRRA(f, i).rows - 1) * getRRA(f, i).step]
         IN IF loc2.firstUpdated * 1000 <= startMs THEN loc2
            ELSE JrrdSelectRRA(f, startMs, cfName, i + 1, loc2)

\* rraRowCount - parseInt((lastUpdated - t)/step) - 1, t being tMilli/1000
JrrdRow(f, sel, tMilli) ==
    sel.rraRowCount - ParseIntDiv(getLastUpdate(f), tMilli, sel.step) - 1

\* for (var i=startRow; i<=endRow; i++)
RECURSIVE JrrdExtractRows(_, _, _, _, _, _, _, _)
JrrdExtractRows(f, a, dsIndex, i, endRow, timestamp, step, flotData) ==
    IF ~(i <= endRow) THEN [thrown |-> FALSE, data |-> flotData]
    ELSE IF getEl(f, a, i, dsIndex, "throw").thrown
    THEN [thrown |-> TRUE, data |-> <<>>]
    ELSE JrrdExtractRows(f, a, dsIndex, i + 1, endRow, timestamp + step, step,
             Append(flotData, <<ToJsTime(timestamp),
                                getEl(f, a, i, dsIndex, "throw").val>>))

jrrdGetData(f, u, startMs, endMs, dsId, cfName0) ==
    IF ~LookupDS(f, dsId).found THEN Throw("LookupError", "")
    ELSE Only({
        IF StepUnset(sel.step) THEN Throw("Error", DefaultCfName(cfName0))
        ELSE Only({
            IF ex.thrown THEN Throw("CellRangeError", "")
            ELSE [kind |-> "return", error |-> "", errCf |-> "",
                  label |-> LookupDS(f, dsId).name, data |-> ex.data,
                  unit |-> u,
                  firstUpdated |-> ToJsTime(FirstUpdated(f)),
                  lastUpdated |-> ToJsTime(getLastUpdate(f))] :
            ex \in {JrrdExtractRows(f, sel.rra, LookupDS(f, dsId).idx,
                        JrrdRow(f, sel, Max2(startMs, sel.firstUpdated * 1000)),
                        JrrdRow(f, sel, JrrdEndTimestamp(f, endMs)),
                        sel.firstUpdated
                          + (JrrdRow(f, sel, Max2(startMs, sel.firstUpdated * 1000)) - 1)
                              * sel.step,
                        sel.step, <<>>)}}) :
        sel \in {JrrdSelectRRA(f, startMs, DefaultCfName(cfName0), 0,
                               [rra |-> 0 - 1, step |-> 0, rraRowCount |-> 0,
                                firstUpdated |-> 0])}})

\* the callback of the deferred handed to the caller, fired with res: the
\* query on the file res (req.method names the function the deferred was
\* given); an exception puts the deferred in its error state
RunQuery(global, u, res, req) ==
    IF res.kind = "error"
    THEN [req |-> [req EXCEPT !.state = "errback", !.error = res.error],
          global |-> global]
    ELSE IF res.kind = "undefined"
    THEN [req |-> [req EXCEPT !.state = "errback",
                    !.error = IF req.method = "getData"
                                 /\ RangeCheckFails(req.q.startTimeJs, req.q.endTimeJs)
                              THEN "RangeError" ELSE "TypeError"],
          global |-> global]
    ELSE IF req.method = "getDSNames"
    THEN [req |-> [req EXCEPT !.state = "callback",
                              !.names = getDSNames(RemoteFile(res.L))],
          global |-> global]
    ELSE IF req.method = "jrrd.getData"
    THEN Only({[req |-> IF r.kind = "throw"
                        THEN [req EXCEPT !.state = "errback",
                                         !.error = r.error, !.ret = r]
                        ELSE [req EXCEPT !.state = "callback", !.ret = r],
                global |-> global] :
               r \in {jrrdGetData(RemoteFile(res.L), u, req.q.startTimeJs,
                                  req.q.endTimeJs.n, req.q.dsId, Undefined)}})
    ELSE Only({[req |-> IF r.ret.kind = "throw"
                        THEN [req EXCEPT !.state = "errback",
                                         !.error = r.ret.error, !.ret = r.ret]
                        ELSE [req EXCEPT !.state = "callback", !.ret = r.ret],
                global |-> r.global] :
               r \in {callGetData(global, RemoteFile(res.L), u,
                                  req.q.startTimeJs, req.q.endTimeJs,
                                  req.q.dsId, req.q.cfName, "throw")}})

\* mutant: the function added to the download returns nothing
PassOn_nothing(res) == UndefinedResult

\* return res, at the end of the function added to the download
PassOn(res) == res

\* the function added to the download with addBoth, run with res for the
\* deferred req: errback or callback, then res is passed on
Deliver(global, u, res, req) ==
    Only({[req |-> fired.req, global |-> fired.global, res |-> PassOn(res)] :
          fired \in {RunQuery(global, u, res, req)}})

\* the function added for the deferred numbered w runs with what the one
\* before it passed on
DeliverNext(prev, w, u) ==
    Only({[reqs |-> [prev.reqs EXCEPT ![w] = d.req], res |-> d.res,
           global |-> d.global] :
          d \in {Deliver(prev.global, u, prev.res, prev.reqs[w])}})

\* the functions added to a download run in the order they were added;
\* after[k] is the state when the first k have run
DeliverAll(waiters, res, reqs, global, u) ==
    LET after[k \in 0..Len(waiters)] ==
            IF k = 0 THEN [reqs |-> reqs, res |-> res, global |-> global]
            ELSE Only({DeliverNext(prev, waiters[k], u) :
                       prev \in {after[k - 1]}})
    IN after[Len(waiters)]

\* new jarmon.RrdQueryRemote(url, unit, downloader)
InitRemote ==
    /\ lastUpdate = 0
    /\ _download = 0
    /\ downloads = <<>>
    /\ requests = <<>>
    /\ served = ServedAt(0)
    /\ firstUpdated = [set |-> FALSE, val |-> 0]
    /\ rrd = ExampleFile /\ unit = "bit/sec" /\ pc = "unused"
    /\ args = NoArgs /\ ret = NoRet /\ locals = NoLocals /\ names = <<>>
    /\ CallsUnused /\ LimiterUnused /\ RecipeUnused

\* mutant: the function added replaces those added before
AddBoth_replace(waiters, id) == <<id>>

\* this._download.addBoth(...): the function firing deferred id is added
\* after the functions the download holds
AddBoth(waiters, id) == Append(waiters, id)

\* _callRemote(method, args) with this._download = dl0 on entry
CallRemote(method, q, dl0) ==
    LET starts == dl0 = 0
        dls1 == IF starts THEN Append(downloads, NewDownload(served))
                ELSE downloads
        dl1 == IF starts THEN Len(dls1) ELSE dl0
        id == Len(requests) + 1
        req == NewRequest(method, q, dl1)
    IN /\ Len(requests) < MaxRequests
       /\ starts => Len(downloads) < MaxDownloads
       /\ _download' = dl1
       /\ IF dls1[dl1].state = "pending"
          THEN /\ downloads' = [dls1 EXCEPT ![dl1].waiters = AddBoth(@, id)]
               /\ requests' = Append(requests, req)
               /\ firstUpdated' = firstUpdated
          ELSE \E d \in {Deliver(firstUpdated, unit, dls1[dl1].result, req)} :
                  /\ downloads' = [dls1 EXCEPT ![dl1].waiters = AddBoth(@, id),
                                               ![dl1].result = d.res]
                  /\ requests' = Append(requests, d.req)
                  /\ firstUpdated' = d.global
       /\ UNCHANGED <<lastUpdate, served, queryVars, callsVars, limiterVars, recipeVars>>

\* RrdQueryRemote.getData(startTime, endTime, dsId, cfName)
RemoteGetData(q) ==
    CallRemote("getData", q, Invalidate(lastUpdate, q.endTimeJs, _download))

\* RrdQueryDsProxy.getData(startTime, endTime) of a proxy bound to dsId
ProxyGetData(dsId, startTimeJs, endTimeJs) ==
    RemoteGetData(Query(startTimeJs, endTimeJs, dsId, Undefined))

\* RrdQueryRemote.getDSNames()
RemoteGetDSNames ==
    CallRemote("getDSNames", Query(0, Undefined, Undefined, Undefined), _download)

\* download d calls back: the file is parsed, this.lastUpdate is set, and
\* the functions added to the download run
DownloadSucceeds(d) ==
    /\ downloads[d].state = "pending"
    /\ lastUpdate' = getLastUpdate(RemoteFile(downloads[d].L))
    /\ \E all \in {DeliverAll(downloads[d].waiters, RrdResult(downloads[d].L),
                                requests, firstUpdated, unit)} :
          /\ requests' = all.reqs
          /\ firstUpdated' = all.global
          /\ downloads' = [downloads EXCEPT ![d].state = "ok",
                                            ![d].result = all.res]
    /\ UNCHANGED <<_download, served, queryVars, callsVars, limiterVars, recipeVars>>

\* download d fails with error e: the functions added to it run with e
DownloadFails(d, e) ==
    /\ downloads[d].state = "pending"
    /\ \E all \in {DeliverAll(downloads[d].waiters, ErrorResult(e),
                                requests, firstUpdated, unit)} :
          /\ requests' = all.reqs
          /\ firstUpdated' = all.global
          /\ downloads' = [downloads EXCEPT ![d].state = "failed",
                                            ![d].error = e,
                                            ![d].result = all.res]
    /\ UNCHANGED <<lastUpdate, _download, served, queryVars, callsVars,
                   limiterVars, recipeVars>>

\* the collector writes the file on the server
ServerUpdate ==
    /\ served < ServedAt(MaxUpdates)
    /\ served' = served + 4
    /\ UNCHANGED <<lastUpdate, _download, downloads, requests, firstUpdated,
                   queryVars, callsVars, limiterVars, recipeVars>>

NextRemote ==
    \/ \E q \in RemoteQueries : RemoteGetData(q)
    \/ \E w \in ProxyWindows, dsId \in ProxyDsIds :
          ProxyGetData(dsId, w[1], w[2])
    \/ RemoteGetDSNames
    \/ \E d \in DOMAIN downloads : DownloadSucceeds(d)
    \/ \E d \in DOMAIN downloads, e \in DownloadErrors : DownloadFails(d, e)
    \/ ServerUpdate

SpecRemote == InitRemote /\ [][NextRemote]_vars

PendingDownloads == {d \in DOMAIN downloads : downloads[d].state = "pending"}

\* ----------------------------------------------------------------- C15
\* C15: at most one download of a RrdQueryRemote's url is in flight at any
\* moment; a getData issued, directly or through a proxy, while a download is
\* outstanding starts no new download, whatever its endTime.
Claim_C15 == Cardinality(PendingDownloads) <= 1

\* ----------------------------------------------------------------- C16
\* a step that is a getData call: one more deferred, made for getData
GetDataStep ==
    /\ Len(requests') = Len(requests) + 1
    /\ requests'[Len(requests')].method = "getData"
NewestRequest == requests'[Len(requests')]

\* C16: once the memoized download has completed successfully with last
\* update L, a getData with endTime/1000 <= L starts no download and is
\* answered from the memoized file, and a getData with endTime/1000 > L
\* discards the memoized download and starts exactly one fresh download, to
\* which it is attached.
Claim_C16 ==
    [][(/\ _download # 0
        /\ downloads[_download].state = "ok"
        /\ GetDataStep
        /\ NewestRequest.q.endTimeJs.t = "number") =>
          LET L == downloads[_download].L
              endTimeJs == NewestRequest.q.endTimeJs.n
          IN /\ endTimeJs <= L * 1000 =>
                  /\ Len(downloads') = Len(downloads)
                  /\ _download' = _download
                  /\ NewestRequest.dl = _download
                  /\ NewestRequest.state # "pending"
             /\ endTimeJs > L * 1000 =>
                  /\ Len(downloads') = Len(downloads) + 1
                  /\ _download' = Len(downloads')
                  /\ NewestRequest.dl = _download'
                  /\ downloads'[_download'].state = "pending"]_vars

\* ----------------------------------------------------------------- C17
\* the error the query of request r raises on the file with last update L,
\* "" when it returns
QueryError(r, L) ==
    IF requests[r].method = "getDSNames" THEN ""
    ELSE LET o == getData(RemoteFile(L), unit, requests[r].q.startTimeJs,
                          requests[r].q.endTimeJs, requests[r].q.dsId,
                          requests[r].q.cfName, "throw").ret
         IN IF o.kind = "throw" THEN o.error ELSE ""

\* C17: a request whose download failed has its deferred fired on the error
\* channel with the download's error, every request attached to that
\* download alike; a request whose query raises on the downloaded file has
\* its deferred fired on the error channel with that error; neither is ever
\* fired on the success channel.
Thm_C17 ==
    \A r \in DOMAIN requests :
        LET d == downloads[requests[r].dl]
        IN /\ d.state = "pending" => requests[r].state = "pending"
           /\ d.state = "failed" =>
                 /\ requests[r].state = "errback"
                 /\ requests[r].error = d.error
           /\ (d.state = "ok" /\ QueryError(r, d.L) # "") =>
                 /\ requests[r].state = "errback"
                 /\ requests[r].error = QueryError(r, d.L)
           /\ (d.state = "ok" /\ QueryError(r, d.L) = "") =>
                 requests[r].state = "callback"

\* three requests on one download that failed, the last made after the
\* failure, and all three received the transport error
Wit_C17 ==
    /\ Len(requests) = 3
    /\ \A r \in 1..3 : /\ requests[r].dl = 1
                       /\ requests[r].state = "errback"
                       /\ requests[r].error = "TransportError"
    /\ downloads[1].state = "failed"
    /\ Len(downloads) = 1

\* ---------------------------------------------------------------------
\* jarmon.Parallimiter: a queue of callables, each returning a deferred, of
\* which at most this.limit are in progress.  A callable is a record
\*   fires    "later" when the deferred it returns fires after the call,
\*            "result" or "error" when it returns a deferred that has
\*            already fired that way
\*   state    "queued", "running" or "done"
\*   outcome  "result" or "error" once its deferred has fired
\*   d        the deferred addCallable returned: "pending", "callback",
\*            "errback"
\* Callables are numbered in the order of their addition.

MaxLimit == 2
MaxCallables == 4

LimitArgs == {Undefined} \cup {Num(k) : k \in 0..MaxLimit}
Firings == {"later", "result", "error"}
Outcomes == {"result", "error"}

\* limit || 1
\* mutant: a limit of 0 is kept
LimitOf_zero(a) == IF a.t = "undefined" THEN 1 ELSE a.n

LimitOf(a) == IF a.t = "undefined" \/ a.n = 0 THEN 1 ELSE a.n

NewCallable(fires) ==
    [fires |-> fires, state |-> "queued", outcome |-> "", d |-> "pending"]

\* this._callQueue.unshift([d, callable, args])
Enqueue_push(queue, c) == Append(queue, c)
Enqueue(queue, c) == <<c>> \o queue

\* this._currentCallCount < this.limit
BelowLimit_le(count, lim) == count <= lim
BelowLimit(count, lim) == count < lim

\* d.callback(res): a deferred called back with an Error is in its error
\* state, with anything else in its success state
Fire(outcome) == IF outcome = "error" THEN "errback" ELSE "callback"

RECURSIVE _nextCall(_, _)
RECURSIVE Completed(_, _, _, _)

\* the function added with addBoth to the deferred of callable c, run when
\* that deferred fires: d.callback(res); self._currentCallCount--;
\* self._nextCall()
Completed_keep(lim, st, c, outcome) ==
    Only({_nextCall(lim, fired) :
          fired \in {[st EXCEPT !.cs[c].state = "done",
                                !.cs[c].outcome = outcome,
                                !.cs[c].d = Fire(outcome)]}})
Completed(lim, st, c, outcome) ==
    Only({_nextCall(lim, fired) :
          fired \in {[st EXCEPT !.cs[c].state = "done",
                                !.cs[c].outcome = outcome,
                                !.cs[c].d = Fire(outcome),
                                !.count = @ - 1]}})

\* _nextCall(): with a call queued and a slot free, count the call, pop it
\* off the end of the queue, call it, and add the completion function to
\* the deferred it returns (which runs at once on a deferred already fired)
_nextCall(lim, st) ==
    IF Len(st.queue) > 0 /\ BelowLimit(st.count, lim)
    THEN Only({Only({IF st.cs[c].fires = "later"
                     THEN started
                     ELSE Completed(lim, started, c, st.cs[c].fires) :
                     started \in {[st EXCEPT !.count = @ + 1,
                                             !.queue = SubSeq(@, 1, Len(@) - 1),
                                             !.cs[c].state = "running",
                                             !.order = Append(@, c)]}}) :
               c \in {st.queue[Len(st.queue)]}})
    ELSE st

\* new jarmon.Parallimiter(limit)
InitLimiter ==
    /\ limitArg \in LimitArgs
    /\ limit = LimitOf(limitArg)
    /\ _callQueue = <<>>
    /\ _currentCallCount = 0
    /\ callables = <<>>
    /\ startOrder = <<>>
    /\ firstUpdated = [set |-> FALSE, val |-> 0]
    /\ rrd = ExampleFile /\ unit = "bit/sec" /\ pc = "unused"
    /\ args = NoArgs /\ ret = NoRet /\ locals = NoLocals /\ names = <<>>
    /\ CallsUnused /\ RemoteUnused /\ RecipeUnused

LimiterState(st) ==
    /\ _callQueue' = st.queue
    /\ _currentCallCount' = st.count
    /\ callables' = st.cs
    /\ startOrder' = st.order
    /\ UNCHANGED <<limitArg, limit, firstUpdated, queryVars, callsVars,
                   remoteVars, recipeVars>>

\* addCallable(callable, args)
AddCallable(fires) ==
    /\ Len(callables) < MaxCallables
    /\ \E st \in {_nextCall(limit,
                      [queue |-> Enqueue(_callQueue, Len(callables) + 1),
                       count |-> _currentCallCount,
                       cs |-> Append(callables, NewCallable(fires)),
                       order |-> startOrder])} :
          LimiterState(st)

\* the deferred of the running callable c fires
Fires(c, outcome) ==
    /\ callables[c].state = "running"
    /\ \E st \in {Completed(limit,
                      [queue |-> _callQueue, count |-> _currentCallCount,
                       cs |-> callables, order |-> startOrder], c, outcome)} :
          LimiterState(st)

NextLimiter ==
    \/ \E fires \in Firings : AddCallable(fires)
    \/ \E c \in DOMAIN callables : \E outcome \in Outcomes : Fires(c, outcome)

SpecLimiter == InitLimiter /\ [][NextLimiter]_vars

\* the callables started whose deferred has not fired
Running == {c \in DOMAIN callables : callables[c].state = "running"}

\* C18: the callables started and not yet fired number at most this.limit,
\* this._currentCallCount lies in 0..limit, and limit is 1 when the limiter
\* was constructed without one.
Thm_C18 ==
    /\ Cardinality(Running) <= limit
    /\ _currentCallCount \in 0..limit
    /\ limitArg = Undefined => limit = 1

\* a limiter constructed without a limit: one callable has completed, one
\* is running and two wait in the queue
Wit_C18 ==
    /\ limitArg = Undefined
    /\ Cardinality(Running) = 1
    /\ _currentCallCount = 1
    /\ Len(_callQueue) = 2
    /\ \E c \in DOMAIN callables : callables[c].state = "done"

\* C19: a callable is started only after every callable added before it
\* has been started.
Thm_C19 ==
    \A j \in DOMAIN startOrder :
        \A a \in 1..(startOrder[j] - 1) :
            \E i \in 1..(j - 1) : startOrder[i] = a

\* limit 1: callable 1 has completed, callable 2 was started from the
\* queue, callables 3 and 4 wait with 3 at the end the queue is popped from
Wit_C19 ==
    /\ limit = 1
    /\ startOrder = <<1, 2>>
    /\ _callQueue = <<4, 3>>
    /\ callables[1].state = "done"
    /\ callables[2].state = "running"

StateOf(cs, c) == IF c \in DOMAIN cs THEN cs[c].state ELSE "absent"

\* the callables whose deferred fires in a step, and those started in it
FiredInStep ==
    {c \in DOMAIN callables' : /\ callables'[c].state = "done"
                               /\ StateOf(callables, c) # "done"}
StartedInStep ==
    {c \in DOMAIN callables' : /\ callables'[c].state \in {"running", "done"}
                               /\ StateOf(callables, c) \in {"queued", "absent"}}

\* C20: every callable whose deferred fires in a step gives up its slot and
\* has the deferred addCallable returned fired the same way, on the success
\* channel for a result and on the error channel for an error; the count
\* goes down by one for each firing and up by one for each start; when a
\* running callable fires, one queued callable is started for each firing
\* as long as the queue has one; and no more callables are started than
\* there are slots free.
Thm_C20 ==
    [][LET fired == Cardinality(FiredInStep)
           started == Cardinality(StartedInStep)
       IN /\ \A c \in FiredInStep :
                 /\ callables'[c].outcome \in Outcomes
                 /\ callables'[c].outcome = "result" => callables'[c].d = "callback"
                 /\ callables'[c].outcome = "error" => callables'[c].d = "errback"
          /\ _currentCallCount' = _currentCallCount - fired + started
          /\ FiredInStep \cap Running # {} =>
                 started = Min2(fired, Len(_callQueue))
          /\ started <= (limit - Cardinality(Running)) + fired
          /\ \A c \in DOMAIN callables' :
                 callables'[c].state # "done" => callables'[c].d = "pending"]_vars

\* limit 1: callable 1 has fired with an error and its deferred is in the
\* error state, callable 2 was started in its place, callable 3 waits
Wit_C20 ==
    /\ limit = 1
    /\ startOrder = <<1, 2>>
    /\ _callQueue = <<3>>
    /\ callables[1].outcome = "error" /\ callables[1].d = "errback"
    /\ callables[2].state = "running"
    /\ _currentCallCount = 1

\* ======================================================================
\* jarmon.RrdQuery.getData, one call (specification Spec), further claims
\* ======================================================================
\* the call got as far as the row indices (lines 235-236)
IndicesComputed == Returned \/ ThrewError("CellRangeError")

\* ----------------------------------------------------------------- C21
\* C21: whenever getData computes the row indices, lastRowTime -
\* startRowTime and lastRowTime - endRowTime are whole multiples of step, so
\* startRowIndex and endRowIndex are the integers rowCount - (lastRowTime -
\* rowTime)/step; no series is returned from an index that is not integral.
Thm_C21 ==
    IndicesComputed =>
        /\ (locals.lastRowTime - locals.startRowTime) % locals.step = 0
        /\ (locals.lastRowTime - locals.endRowTime) % locals.step = 0
        /\ locals.startRowIndex * locals.step =
              locals.rraRowCount * locals.step
                 - (locals.lastRowTime - locals.startRowTime)
        /\ locals.endRowIndex * locals.step =
              locals.rraRowCount * locals.step
                 - (locals.lastRowTime - locals.endRowTime)

\* a window whose two ends fall between the rows of an archive of step 4:
\* the indices are whole and the series holds rows in between
Wit_C21 ==
    /\ Returned
    /\ locals.step = 4
    /\ args.startTimeJs % 4000 # 0
    /\ args.endTimeJs.t = "number" /\ args.endTimeJs.n % 4000 # 0
    /\ locals.startRowIndex > 0
    /\ locals.endRowIndex < locals.rraRowCount
    /\ Len(ret.data) > 0

\* ----------------------------------------------------------------- C22
\* a call the three checks let through: a window that is not inverted, a
\* data source of the file, a consolidation function of some archive
Accepted == Called /\ ~SuppliedInverted /\ KnownDs /\ Matching # {}
\* the end of the window (endTime of the code, in milliseconds) lies after
\* its start
EndAfterStart == WinEndTime > args.startTimeJs
\* the chosen archive has no row newer than the start of the window
StartAfterLastRow ==
    EndAfterStart /\ args.startTimeJs > LastRowTimeOf(Chosen) * 1000
\* the whole window lies before the first row of the chosen archive
WindowBeforeFirstRow ==
    EndAfterStart /\ WinEndTime <= FirstRowTimeOf(Chosen) * 1000

\* C22: in every accepted query startRowTime <= endRowTime and
\* startRowIndex <= endRowIndex; a window that starts after the last row of
\* the chosen archive, or that lies wholly before its first row, returns an
\* empty series: the call does not fail, and no sample is returned.
Thm_C22 ==
    /\ IndicesComputed =>
          /\ locals.startRowTime <= locals.endRowTime
          /\ locals.startRowIndex <= locals.endRowIndex
    /\ (Accepted /\ (StartAfterLastRow \/ WindowBeforeFirstRow)) =>
          /\ Returned
          /\ ret.data = <<>>
          /\ locals.startRowTime = locals.endRowTime

\* a file last updated at second 21 asked for a window that starts at
\* second 22.5 or later: the start is capped at the last row and the series
\* is empty
Wit_C22 ==
    /\ Accepted /\ StartAfterLastRow
    /\ args.endTimeJs.t = "number"
    /\ rrd.lastUpdate = MaxLastUpdate
    /\ Quantize(args.startTimeJs, locals.step) > locals.lastRowTime
    /\ Returned
    /\ ret.data = <<>>
    /\ locals.startRowTime = locals.lastRowTime

\* ======================================================================
\* jrrd.RrdQueryRemote (src/jrrd.js): the same remote query with the
\* download test inside getData.  The state is that of
\* jarmon.RrdQueryRemote; a download and the deferreds attached to it behave
\* as there (CallRemote with the download to attach to, 0 for a new one).
\* ======================================================================
\* the calls: inside every file served, ending after the first file served,
\* ending after every file served with an unknown data source
JrrdQueries ==
    {Query(10000, Num(18000), Undefined, Undefined),
     Query(10000, Num(22000), Undefined, Undefined),
     Query(10000, Num(26000), Num(5), Undefined)}

\* mutant: the test does not look at whether the download has fired
JrrdStarts_unfired(dl, dls, lu, endMs) == dl = 0 \/ lu * 1000 < endMs

\* !this._download || (this._download.fired > -1 && this.lastUpdate <
\* endTimestamp)
JrrdStarts(dl, dls, lu, endMs) ==
    dl = 0 \/ (dls[dl].state # "pending" /\ lu * 1000 < endMs)

\* jrrd.RrdQueryRemote.getData(startTime, endTime, dsId): the query gets
\* these three arguments and no consolidation function
JrrdRemoteGetData(q) ==
    CallRemote("jrrd.getData", q,
               IF JrrdStarts(_download, downloads, lastUpdate, q.endTimeJs.n)
               THEN 0 ELSE _download)

\* jrrd.RrdQueryDsProxy.getData(startTime, endTime) of a proxy bound to dsId
JrrdProxyGetData(dsId, startTimeJs, endTimeJs) ==
    JrrdRemoteGetData(Query(startTimeJs, endTimeJs, dsId, Undefined))

NextJrrd ==
    \/ \E q \in JrrdQueries : JrrdRemoteGetData(q)
    \/ \E w \in ProxyWindows, dsId \in ProxyDsIds :
          JrrdProxyGetData(dsId, w[1], w[2])
    \/ \E d \in DOMAIN downloads : DownloadSucceeds(d)
    \/ \E d \in DOMAIN downloads, e \in DownloadErrors : DownloadFails(d, e)
    \/ ServerUpdate

SpecJrrd == InitRemote /\ [][NextJrrd]_vars

\* ----------------------------------------------------------------- C23
\* a step that starts a download
DownloadStarts == Len(downloads') = Len(downloads) + 1

\* C23: jrrd's getData starts a download only when none was ever started,
\* or when the last started download has fired and this.lastUpdate is
\* below the end time of the call in seconds; no download starts while one
\* is in progress, and at most one download is in flight at any moment.
Thm_C23 ==
    [][/\ DownloadStarts =>
             /\ Len(requests') = Len(requests) + 1
             /\ NewestRequest.method = "jrrd.getData"
             /\ \/ downloads = <<>>
                \/ /\ downloads[Len(downloads)].state # "pending"
                   /\ lastUpdate * 1000 < NewestRequest.q.endTimeJs.n
             /\ PendingDownloads = {}
       /\ Cardinality(PendingDownloads') <= 1]_vars

\* two calls were attached to the first download, the second of them (its
\* end time is beyond that file) while the download was in progress; a
\* third call, after the download had fired, started the second download
Wit_C23 ==
    /\ Len(requests) = 3 /\ Len(downloads) = 2
    /\ requests[1].dl = 1 /\ requests[2].dl = 1 /\ requests[3].dl = 2
    /\ requests[2].q.endTimeJs.n = 22000
    /\ downloads[1].state = "ok" /\ downloads[1].L = 20
    /\ requests[2].state = "callback"
    /\ downloads[2].state = "pending"

\* ======================================================================
\* jarmon.Chart.fromRecipe and jarmon.RrdQueryDsProxy
\* ======================================================================
\* names every object inherits from Object.prototype: dataDict = {} answers
\* dataDict[name] with the inherited member for them
ObjectPrototypeNames ==
    {"constructor", "toString", "toLocaleString", "valueOf", "hasOwnProperty",
     "isPrototypeOf", "propertyIsEnumerable", "__proto__", "__defineGetter__",
     "__defineSetter__", "__lookupGetter__", "__lookupSetter__"}

\* recipe['data'][j]: [rrd, ds, label, unit]
RecipeEntry(rrdUrl, ds, label, u) == [rrd |-> rrdUrl, ds |-> ds, label |-> label, unit |-> u]
RecipeEntries ==
    {RecipeEntry("cpu.rrd", Num(0), "user", "jiffies"),
     RecipeEntry("cpu.rrd", Num(1), "system", "ticks"),
     RecipeEntry("if.rrd", Str("rx"), "in", "bit/sec"),
     RecipeEntry("constructor", Num(0), "c", "")}
\* the lists of 1 to n recipes with data lists of at most m entries
RecipeLists(n, m) ==
    SeqsUpTo({[title |-> "t", data |-> d] : d \in SeqsUpTo(RecipeEntries, m)}, n)
        \ {<<>>}

\* dataDict[rrd]
DictGet(dict, rrdUrl) ==
    IF rrdUrl \in DOMAIN dict THEN [t |-> "remote", id |-> dict[rrdUrl], name |-> ""]
    ELSE IF rrdUrl \in ObjectPrototypeNames
         THEN [t |-> "inherited", id |-> 0, name |-> rrdUrl]
    ELSE [t |-> "undefined", id |-> 0, name |-> ""]

\* typeof dataDict[rrd] == 'undefined'
NeedsRemote(dict, rrdUrl) == DictGet(dict, rrdUrl).t = "undefined"

\* new jarmon.RrdQueryDsProxy(rrdQuery, dsId)
RrdQueryDsProxy(rrdQuery, dsId) == [rrdQuery |-> rrdQuery, dsId |-> dsId]

\* the body of the inner loop for one entry; st holds dataDict, the remotes
\* constructed and chartData
AddEntry(st, e) ==
    Only({[dataDict |-> d.dataDict, remotes |-> d.remotes,
           chartData |-> Append(st.chartData,
                                [label |-> e.label,
                                 db |-> RrdQueryDsProxy(DictGet(d.dataDict, e.rrd), e.ds)])]
          : d \in {IF NeedsRemote(st.dataDict, e.rrd)
                   THEN [dataDict |-> (e.rrd :> (Len(st.remotes) + 1)) @@ st.dataDict,
                         remotes |-> Append(st.remotes, [url |-> e.rrd, unit |-> e.unit])]
                   ELSE [dataDict |-> st.dataDict, remotes |-> st.remotes]}})

RECURSIVE AddEntries(_, _, _)
AddEntries(data, j, st) ==
    IF j > Len(data) THEN st
    ELSE AddEntries(data, j + 1, AddEntry(st, data[j]))

\* a boolean argument
Bool(b) == [t |-> "boolean", n |-> IF b THEN 1 ELSE 0, s |-> ""]

\* jarmon.Chart.prototype.addData(label, db, enabled) on the list this.data
addData(data, label, db, enabled) ==
    Append(data, [label |-> label, db |-> db,
                  enabled |-> IF enabled.t = "undefined" THEN Bool(TRUE) ELSE enabled])

\* c.addData.apply(c, chartData[j]) for the entries from j on
RECURSIVE AddAllData(_, _, _)
AddAllData(data, chartData, j) ==
    IF j > Len(chartData) THEN data
    ELSE AddAllData(addData(data, chartData[j].label, chartData[j].db, Undefined),
                    chartData, j + 1)

\* jarmon.Chart.prototype.switchDataEnabled(label) on the list this.data
switchDataEnabled(data, label) ==
    [i \in DOMAIN data |->
        IF data[i].label = label
        THEN [data[i] EXCEPT !.enabled = Bool(data[i].enabled.n = 0)]
        ELSE data[i]]

\* the body of the outer loop for one recipe; st holds dataDict, the remotes
\* constructed and charts
AddRecipe(st, recipe) ==
    Only({[dataDict |-> r.dataDict, remotes |-> r.remotes,
           charts |-> IF Len(r.chartData) > 0
                      THEN Append(st.charts,
                                  [title |-> recipe.title,
                                   data |-> AddAllData(<<>>, r.chartData, 1)])
                      ELSE st.charts]
          : r \in {AddEntries(recipe.data, 1,
                              [dataDict |-> st.dataDict, remotes |-> st.remotes,
                               chartData |-> <<>>])}})

RECURSIVE fromRecipeLoop(_, _, _)
fromRecipeLoop(rs, i, st) ==
    IF i > Len(rs) THEN st
    ELSE fromRecipeLoop(rs, i + 1, AddRecipe(st, rs[i]))

\* jarmon.Chart.fromRecipe(recipes, templateFactory, downloader)
fromRecipe(rs) ==
    fromRecipeLoop(rs, 1, [dataDict |-> <<>>, remotes |-> <<>>, charts |-> <<>>])

ProxyCallWindows == {<<10000, Num(22000)>>, <<0, Undefined>>}

InitRecipe ==
    /\ recipes \in RecipeLists(MaxRecipes, MaxEntries)
    /\ recipePc = "ready"
    /\ dataDict = <<>> /\ remotes = <<>> /\ charts = <<>> /\ forwarded = <<>>
    /\ firstUpdated = [set |-> FALSE, val |-> 0]
    /\ rrd = ExampleFile /\ unit = "bit/sec" /\ pc = "unused"
    /\ args = NoArgs /\ ret = NoRet /\ locals = NoLocals /\ names = <<>>
    /\ CallsUnused /\ RemoteUnused /\ LimiterUnused

\* charts = jarmon.Chart.fromRecipe(recipes, ...)
FromRecipe ==
    /\ recipePc = "ready"
    /\ \E r \in {fromRecipe(recipes)} :
          /\ dataDict' = r.dataDict
          /\ remotes' = r.remotes
          /\ charts' = r.charts
    /\ recipePc' = "built"
    /\ UNCHANGED <<recipes, forwarded, firstUpdated, queryVars, callsVars, remoteVars,
                   limiterVars>>

\* what a page passes to addData itself: a label, a db that is not a proxy
\* made by fromRecipe, and enabled or nothing
AddDataArgs ==
    {[label |-> l, db |-> [url |-> "direct.rrd"], enabled |-> e] :
        l \in {"direct", "user"}, e \in {Undefined, Bool(FALSE)}}

\* charts[c].addData(label, db, enabled), called by the page
AddData(c, label, db, enabled) ==
    /\ recipePc = "built"
    /\ c \in DOMAIN charts
    /\ Len(charts[c].data) < MaxEntries + MaxAdded
    /\ charts' = [charts EXCEPT ![c].data = addData(@, label, db, enabled)]
    /\ UNCHANGED <<recipes, recipePc, dataDict, remotes, forwarded, firstUpdated,
                   queryVars, callsVars, remoteVars, limiterVars>>

\* charts[c].switchDataEnabled(label), called by the page or by a click on
\* the legend
SwitchDataEnabled(c, label) ==
    /\ recipePc = "built"
    /\ c \in DOMAIN charts
    /\ \E j \in DOMAIN charts[c].data : charts[c].data[j].label = label
    /\ charts' = [charts EXCEPT ![c].data = switchDataEnabled(@, label)]
    /\ UNCHANGED <<recipes, recipePc, dataDict, remotes, forwarded, firstUpdated,
                   queryVars, callsVars, remoteVars, limiterVars>>

\* charts[c].data[j][1].getData(startTime, endTime) on a proxy made by
\* fromRecipe: the call the proxy makes on its rrdQuery; an rrdQuery
\* without a getData method makes the call throw a TypeError
ProxyForward(c, j, startTime, endTime) ==
    /\ recipePc = "built"
    /\ c \in DOMAIN charts /\ j \in DOMAIN charts[c].data
    /\ "rrdQuery" \in DOMAIN charts[c].data[j].db
    /\ \E p \in {charts[c].data[j].db} :
          forwarded' =
              <<[chart |-> c, entry |-> j, startTime |-> startTime, endTime |-> endTime,
                 received |-> IF p.rrdQuery.t = "remote"
                              THEN [thrown |-> "", target |-> p.rrdQuery,
                                    startTime |-> startTime, endTime |-> endTime,
                                    dsId |-> p.dsId]
                              ELSE [thrown |-> "TypeError", target |-> p.rrdQuery,
                                    startTime |-> 0, endTime |-> Undefined,
                                    dsId |-> Undefined]]>>
    /\ UNCHANGED <<recipes, recipePc, dataDict, remotes, charts, firstUpdated, queryVars,
                   callsVars, remoteVars, limiterVars>>

NextRecipe ==
    \/ FromRecipe
    \/ \E c \in 1..MaxRecipes, a \in AddDataArgs :
          AddData(c, a.label, a.db, a.enabled)
    \/ \E c \in 1..MaxRecipes, a \in AddDataArgs : SwitchDataEnabled(c, a.label)
    \/ \E c \in 1..MaxRecipes, j \in 1..(MaxEntries + MaxAdded), w \in ProxyCallWindows :
          ProxyForward(c, j, w[1], w[2])

SpecRecipe == InitRecipe /\ [][NextRecipe]_vars

\* ----------------------------------------------------------------- C24
\* the recipes that gave a chart, in the order of the charts
ChartRecipes == SelectSeq(recipes, LAMBDA r : Len(r.data) > 0)

\* C24: after fromRecipe, every chart holds, for every data entry of its
\* recipe and in the order of the recipe, a proxy whose rrdQuery is an
\* RrdQueryRemote constructed for the url of the entry and whose dsId is that
\* of the entry; there is one RrdQueryRemote per distinct url; and a call
\* getData(start, end) on such a proxy arrives at that remote with the same
\* start and end and the dsId of the entry.
Claim_C24 ==
    recipePc = "built" =>
        /\ Len(charts) = Len(ChartRecipes)
        /\ \A c \in DOMAIN charts :
              /\ Len(charts[c].data) >= Len(ChartRecipes[c].data)
              /\ \A j \in DOMAIN ChartRecipes[c].data :
                    /\ charts[c].data[j].db.rrdQuery.t = "remote"
                    /\ charts[c].data[j].db.rrdQuery.id \in DOMAIN remotes
                    /\ remotes[charts[c].data[j].db.rrdQuery.id].url
                          = ChartRecipes[c].data[j].rrd
                    /\ charts[c].data[j].db.dsId = ChartRecipes[c].data[j].ds
        /\ \A a, b \in DOMAIN remotes : remotes[a].url = remotes[b].url => a = b
        /\ \A n \in DOMAIN forwarded :
              /\ forwarded[n].received.thrown = ""
              /\ forwarded[n].received.target
                    = charts[forwarded[n].chart].data[forwarded[n].entry].db.rrdQuery
              /\ forwarded[n].received.startTime = forwarded[n].startTime
              /\ forwarded[n].received.endTime = forwarded[n].endTime
              /\ forwarded[n].received.dsId
                    = ChartRecipes[forwarded[n].chart].data[forwarded[n].entry].ds

\* the urls of the recipes that are not names of Object.prototype
OwnUrlsOnly ==
    \A i \in DOMAIN recipes : \A j \in DOMAIN recipes[i].data :
        recipes[i].data[j].rrd \notin ObjectPrototypeNames

\* ----------------------------------------------------------------- C25
\* the rows the extraction loop reads with rra.getEl(i, dsIndex)
RowsRead == locals.startRowIndex..(locals.endRowIndex - 1)

\* C25: every row getData reads lies inside the archive object it is read
\* from: 0 <= i < number of rows of that archive, the fallback case (no
\* matching archive covers the start time) included.
Claim_C25 ==
    IndicesComputed =>
        \A i \in RowsRead : i >= 0 /\ i < rrd.rras[locals.rra + 1].rows

\* ----------------------------------------------------------------- C26
\* the time an archive spans, and files whose last archive spans the most
SpanOf(i) == rrd.rras[i + 1].rows * rrd.rras[i + 1].step
LongestLast == \A i \in Archives : SpanOf(i) <= SpanOf(Len(rrd.rras) - 1)

\* C26: on a file whose last archive is the longest-span archive, every
\* timestamp of a returned series lies within the coverage window of the
\* same result: firstUpdated <= timestamp <= lastUpdated.
Claim_C26 ==
    (Returned /\ LongestLast) =>
        \A k \in DOMAIN ret.data :
            /\ ret.firstUpdated <= ret.data[k][1]
            /\ ret.data[k][1] <= ret.lastUpdated

\* ----------------------------------------------------------------- C27
\* download d completes successfully in this step
SucceedsInStep(d) == downloads[d].state = "pending" /\ downloads'[d].state = "ok"

\* C27: after every step, a memoized download that has completed
\* successfully holds the file whose last-update time is this.lastUpdate;
\* and the successful completion of a download that is not the memoized
\* one leaves this.lastUpdate as it was.
Claim_C27 ==
    [][/\ (_download' # 0 /\ downloads'[_download'].state = "ok") =>
              lastUpdate' = downloads'[_download'].L
       /\ \A d \in DOMAIN downloads :
              (SucceedsInStep(d) /\ d # _download) => lastUpdate' = lastUpdate]_vars

\* ----------------------------------------------------------------- C28
\* C28: a failing getData raises one error, by a fixed precedence: a window
\* with both times supplied and startTime >= endTime raises RangeError even
\* when the data source is unknown or no archive has the consolidation
\* function; otherwise an unknown data source raises the lookup error even
\* when no archive has the consolidation function; the
\* consolidation-function error is raised only when the window passed the
\* check and the data source exists, and then whenever no archive matches.
\* A call that raises an error returns no result.
Thm_C28 ==
    Called =>
        /\ SuppliedInverted => ThrewError("RangeError")
        /\ (~SuppliedInverted /\ ~KnownDs) => ThrewError("LookupError")
        /\ (~SuppliedInverted /\ KnownDs /\ Matching = {}) => ThrewError("TypeError")
        /\ ThrewError("TypeError") => (~SuppliedInverted /\ KnownDs)
        /\ ThrewError("LookupError") => ~SuppliedInverted
        /\ ret.kind = "throw" =>
              /\ ret.error \in {"RangeError", "LookupError", "TypeError", "CellRangeError"}
              /\ ret.label = "" /\ ret.data = <<>>

\* all three conditions fail at once and RangeError is the error raised
Wit_C28 ==
    /\ Called
    /\ SuppliedInverted /\ ~KnownDs /\ Matching = {}
    /\ args.cfName = Str("BOGUS") /\ args.dsId = Str("nope")
    /\ ThrewError("RangeError")

\* ----------------------------------------------------------------- C29
\* download d completes, with failure or with success
Completes(d) ==
    /\ d \in DOMAIN downloads
    /\ \/ \E e \in DownloadErrors : DownloadFails(d, e)
       \/ DownloadSucceeds(d)

\* every started download eventually completes
SpecRemoteFair == SpecRemote /\ \A d \in 1..MaxDownloads : WF_vars(Completes(d))

\* the deferred of request r has fired
Fired(r) == r \in DOMAIN requests /\ requests[r].state # "pending"

\* what the deferred of request r fires with on the outcome of download d
OutcomeOn(r, d) ==
    IF downloads[d].state = "failed"
    THEN [state |-> "errback", error |-> downloads[d].error, ret |-> NoRet,
          names |-> <<>>]
    ELSE IF requests[r].method = "getDSNames"
    THEN [state |-> "callback", error |-> "", ret |-> NoRet,
          names |-> getDSNames(RemoteFile(downloads[d].L))]
    ELSE Only({[state |-> IF o.kind = "throw" THEN "errback" ELSE "callback",
                error |-> o.error, ret |-> o, names |-> <<>>] :
               o \in {getData(RemoteFile(downloads[d].L), unit,
                              requests[r].q.startTimeJs, requests[r].q.endTimeJs,
                              requests[r].q.dsId, requests[r].q.cfName, "throw").ret}})

\* the call made in this step is attached to the download memoized when
\* _callRemote attaches it; the calls made before stay with theirs, and a
\* deferred that has fired is not fired again
AttachedForGood ==
    /\ Len(requests') = Len(requests) + 1 => requests'[Len(requests')].dl = _download'
    /\ \A r \in DOMAIN requests :
          /\ requests'[r].dl = requests[r].dl
          /\ requests[r].state # "pending" => requests'[r] = requests[r]

\* a deferred has fired exactly when its download has completed, and with
\* the outcome of its query on that download
FiredFromOwnDownload ==
    \A r \in DOMAIN requests :
        /\ requests[r].state = "pending" <=> downloads[requests[r].dl].state = "pending"
        /\ requests[r].state # "pending" =>
              [state |-> requests[r].state, error |-> requests[r].error,
               ret |-> requests[r].ret, names |-> requests[r].names]
                  = OutcomeOn(r, requests[r].dl)

\* C29: when every started download eventually completes, the deferred of
\* every getData and getDSNames call eventually fires; it fires once, with
\* the outcome of its query on the download that was the memoized one when
\* the call was attached, also when later calls have replaced the memoized
\* download.
Thm_C29 ==
    /\ \A r \in 1..MaxRequests : (r \in DOMAIN requests) ~> Fired(r)
    /\ []FiredFromOwnDownload
    /\ [][AttachedForGood]_vars

\* the first call was attached to download 1, a later call replaced the
\* memoized download by one of a newer file, which completed first; then
\* download 1 completed and the first deferred fired with the older file
Wit_C29 ==
    /\ Len(requests) >= 2 /\ Len(downloads) = 2
    /\ requests[1].dl = 1 /\ requests[2].dl = 2 /\ _download = 2
    /\ downloads[1].L = 20 /\ downloads[2].L = 24
    /\ requests[1].method = "getData" /\ requests[2].method = "getData"
    /\ requests[1].state = "callback" /\ requests[2].state = "callback"
    /\ requests[1].ret.lastUpdated = 20000
    /\ requests[2].ret.lastUpdated = 24000
    /\ lastUpdate = 20

\* ----------------------------------------------------------------- C30
\* the deferred of callable c fires while it is running
FiresLater(c) ==
    /\ c \in DOMAIN callables
    /\ \E outcome \in Outcomes : Fires(c, outcome)

\* the deferred of every started callable eventually fires
SpecLimiterFair == SpecLimiter /\ \A c \in 1..MaxCallables : WF_vars(FiresLater(c))

Added(c) == c \in DOMAIN callables
Started(c) == \E j \in DOMAIN startOrder : startOrder[j] = c
\* callable c was started and the deferred addCallable returned has fired
Served(c) == Added(c) /\ Started(c) /\ callables[c].d # "pending"
Idle == _currentCallCount = 0 /\ _callQueue = <<>>

\* C30: between operations, a non-empty queue means that exactly limit
\* callables are running, and _currentCallCount is the number of callables
\* running; when the deferred of every started callable eventually fires,
\* every callable added is eventually started and the deferred addCallable
\* returned for it eventually fires; once that has happened for every
\* callable added, _currentCallCount is 0 and the queue is empty, and the
\* limiter comes back to that state again and again.
Thm_C30 ==
    /\ [](Len(_callQueue) > 0 => Cardinality(Running) = limit)
    /\ [](_currentCallCount = Cardinality(Running))
    /\ \A c \in 1..MaxCallables : Added(c) ~> Served(c)
    /\ []((\A c \in DOMAIN callables : Served(c)) => Idle)
    /\ []<>Idle

\* limit 2: callable 1 has completed and callable 3 was started from the
\* queue in its place, callables 2 and 3 are running, callable 4 waits
Wit_C30 ==
    /\ limit = 2
    /\ startOrder = <<1, 2, 3>>
    /\ callables[1].state = "done" /\ callables[1].d # "pending"
    /\ Running = {2, 3}
    /\ _callQueue = <<4>>
    /\ _currentCallCount = 2

====
